---- MODULE Spec2Model ----
(***************************************************************************)
(* ChromaChat-phone: the context-window budgeting of chatService.ts        *)
(* (resolveTokenLimit, buildSystemPromptContent, buildChatPayload), the    *)
(* token estimator, and the Dexie store operations on contacts, threads    *)
(* and messages with their IndexedDB transaction scheduling.               *)
(***************************************************************************)
EXTENDS Integers, Sequences, FiniteSets, TLC

(***************************************************************************)
(* Text.  A character is one of the named code points below; each name     *)
(* stands for the code points that the regular expressions of the source   *)
(* treat alike.                                                            *)
(*   "a"      ASCII letter, digit or '-'      "sp" ' '   "nl" '\n'         *)
(*   "cr"     '\r'                            "dot" '.'  "bang" '!'        *)
(*   "zh"     CJK ideograph or U+FF1A '：'     "zhdot" '。'                  *)
(*   "zhcomma" '、' '，' or a curly quote       "ideosp" U+3000              *)
(*   "nbsp"   U+00A0                                                       *)
(* A string is kept as the sequence of its runs of equal characters,       *)
(* [c |-> character, n |-> length] with n >= 1 and neighbouring runs of    *)
(* different characters, so that equal strings are equal sequences and a   *)
(* message of a thousand characters is one run.                            *)
(***************************************************************************)
Char == {"a", "sp", "nl", "cr", "dot", "bang", "zh", "zhdot", "zhcomma", "ideosp", "nbsp"}

\* /[^\x00-\x7F]/ does not match the character
IsAscii(c) == c \in {"a", "sp", "nl", "cr", "dot", "bang"}

\* \s and String.prototype.trim
IsWhitespace(c) == c \in {"sp", "nl", "cr", "ideosp", "nbsp"}

\* the punctuation class of estimateTextTokens
IsPunctuation(c) == c \in {"dot", "bang", "zhdot", "zhcomma", "ideosp"}

\* n times the character c
Rep(c, n) == IF n = 0 THEN << >> ELSE << [c |-> c, n |-> n] >>

\* a + b
Cat(a, b) ==
    IF a = << >> THEN b
    ELSE IF b = << >> THEN a
    ELSE IF a[Len(a)].c = b[1].c
         THEN SubSeq(a, 1, Len(a) - 1)
              \o << [c |-> b[1].c, n |-> a[Len(a)].n + b[1].n] >>
              \o Tail(b)
         ELSE a \o b

RECURSIVE Str(_)
\* the string of the given characters
Str(chars) == IF chars = << >> THEN << >> ELSE Cat(Rep(Head(chars), 1), Str(Tail(chars)))

RECURSIVE Canonical(_)
\* runs of length 0 dropped and equal neighbours merged
Canonical(runs) ==
    IF runs = << >> THEN << >>
    ELSE IF Len(runs) = 1 THEN Rep(runs[1].c, runs[1].n)
    ELSE Cat(Canonical(SubSeq(runs, 1, Len(runs) \div 2)),
             Canonical(SubSeq(runs, Len(runs) \div 2 + 1, Len(runs))))

\* the index of the first run that is not whitespace, Len(s) + 1 if none
FirstNonWhitespace(s) ==
    CHOOSE i \in 1..(Len(s) + 1) :
        /\ i = Len(s) + 1 \/ ~IsWhitespace(s[i].c)
        /\ \A j \in 1..(i - 1) : IsWhitespace(s[j].c)

\* the index of the last run that is not whitespace, 0 if none
LastNonWhitespace(s) ==
    CHOOSE i \in 0..Len(s) :
        /\ i = 0 \/ ~IsWhitespace(s[i].c)
        /\ \A j \in (i + 1)..Len(s) : IsWhitespace(s[j].c)

\* String.prototype.trim
\* a faulty variant of trim: the text as it is
NoTrim(s) == s

Trim(s) == SubSeq(s, FirstNonWhitespace(s), LastNonWhitespace(s))

\* sanitizeText: value?.trim() ?? ''   (an absent optional field is << >>)
sanitizeText(value) == Trim(value)

\* text.replace(/\r\n|\r/g, '\n'): every '\r' becomes '\n', and the '\n' that
\* follows a '\r' goes with it
NormalizeNewlines(s) ==
    Canonical([i \in 1..Len(s) |->
        IF s[i].c = "cr" THEN [c |-> "nl", n |-> s[i].n]
        ELSE IF s[i].c = "nl" /\ i > 1 /\ s[i - 1].c = "cr"
             THEN [c |-> "nl", n |-> s[i].n - 1]
        ELSE s[i]])

RECURSIVE Sum(_)
Sum(numbers) ==
    IF numbers = << >> THEN 0
    ELSE IF Len(numbers) = 1 THEN numbers[1]
    ELSE Sum(SubSeq(numbers, 1, Len(numbers) \div 2))
         + Sum(SubSeq(numbers, Len(numbers) \div 2 + 1, Len(numbers)))

\* countMatches(input, pattern) for a pattern that matches one character of a class
CountChars(s, class) == Sum([i \in 1..Len(s) |-> IF s[i].c \in class THEN s[i].n ELSE 0])

\* string.length
Length(s) == Sum([i \in 1..Len(s) |-> s[i].n])

\* countMatches(normalized, /\s+/g): the number of maximal whitespace stretches
CountWhitespaceRuns(s) ==
    Cardinality({i \in 1..Len(s) :
        IsWhitespace(s[i].c) /\ (i = 1 \/ ~IsWhitespace(s[i - 1].c))})

CeilDiv(n, d) == (n + d - 1) \div d

Max(a, b) == IF a >= b THEN a ELSE b
Min(a, b) == IF a <= b THEN a ELSE b

(***************************************************************************)
(* estimateTextTokens.  The weights 1/4, 1, 0.3 and 0.2 are kept exact by  *)
(* counting in twentieths of a token: 5, 20, 6 and 4.  (IEEE doubles give  *)
(* the same ceiling for every text with fewer than 12 punctuation          *)
(* characters, which covers all texts of this model.)                      *)
(***************************************************************************)
\* a faulty variant: a text of whitespace is not told from one with content
estimateTextTokensCountsBlanks(text) ==
    IF text = << >> THEN 0
    ELSE LET normalized == Trim(NormalizeNewlines(text))
             asciiChars == CountChars(normalized, {c \in Char : IsAscii(c)})
             nonAsciiChars == Length(normalized) - asciiChars
             whitespaceCount == CountWhitespaceRuns(normalized)
             punctuationCount == CountChars(normalized, {c \in Char : IsPunctuation(c)})
             twentieths == 5 * asciiChars + 20 * nonAsciiChars
                           + 6 * whitespaceCount + 4 * punctuationCount
         IN  Max(1, CeilDiv(twentieths, 20))

estimateTextTokens(text) ==
    IF text = << >> THEN 0
    ELSE LET normalized == Trim(NormalizeNewlines(text))
             asciiChars == CountChars(normalized, {c \in Char : IsAscii(c)})
             nonAsciiChars == Length(normalized) - asciiChars
             whitespaceCount == CountWhitespaceRuns(normalized)
             punctuationCount == CountChars(normalized, {c \in Char : IsPunctuation(c)})
             twentieths == 5 * asciiChars + 20 * nonAsciiChars
                           + 6 * whitespaceCount + 4 * punctuationCount
         IN  IF normalized = << >> THEN 0
             ELSE Max(1, CeilDiv(twentieths, 20))

(***************************************************************************)
(* JavaScript numbers as far as resolveTokenLimit tells them apart: a      *)
(* finite number is counted in halves (so that 500.5 is 1001 halves and    *)
(* Math.floor has something to do), the others are named by kind.          *)
(***************************************************************************)
Undefined == [kind |-> "undefined", halves |-> 0]
NaN == [kind |-> "NaN", halves |-> 0]
PosInfinity == [kind |-> "Infinity", halves |-> 0]
NegInfinity == [kind |-> "-Infinity", halves |-> 0]
Num(n) == [kind |-> "number", halves |-> 2 * n]
Halves(h) == [kind |-> "number", halves |-> h]

DEFAULT_TOKEN_LIMIT == 16000
MAX_TOKEN_LIMIT == 128000
MIN_TOKEN_LIMIT == 500
MESSAGE_TOKEN_OVERHEAD == 4
SYSTEM_TOKEN_OVERHEAD == 12

\* a ?? b
Coalesce(a, b) == IF a = Undefined THEN b ELSE a

\* faulty variants of resolveTokenLimit: the lower clamp is forgotten; the upper
\* clamp is forgotten; a value under the minimum is taken for an invalid one
resolveTokenLimitNoFloor(tokenLimit) ==
    IF tokenLimit.kind # "number" THEN DEFAULT_TOKEN_LIMIT
    ELSE Min(MAX_TOKEN_LIMIT, tokenLimit.halves \div 2)

resolveTokenLimitNoMax(tokenLimit) ==
    IF tokenLimit.kind # "number" THEN DEFAULT_TOKEN_LIMIT
    ELSE Max(MIN_TOKEN_LIMIT, tokenLimit.halves \div 2)

resolveTokenLimitDefaultBelowMin(tokenLimit) ==
    IF tokenLimit.kind # "number" THEN DEFAULT_TOKEN_LIMIT
    ELSE IF tokenLimit.halves \div 2 < MIN_TOKEN_LIMIT THEN DEFAULT_TOKEN_LIMIT
    ELSE Min(MAX_TOKEN_LIMIT, tokenLimit.halves \div 2)

resolveTokenLimit(tokenLimit) ==
    IF tokenLimit.kind \in {"undefined", "NaN"} THEN DEFAULT_TOKEN_LIMIT
    ELSE IF tokenLimit.kind \in {"Infinity", "-Infinity"} THEN DEFAULT_TOKEN_LIMIT
    ELSE Min(MAX_TOKEN_LIMIT, Max(MIN_TOKEN_LIMIT, tokenLimit.halves \div 2))

(***************************************************************************)
(* buildSystemPromptContent.  The literal labels keep their length and     *)
(* their character classes: '角色信息：' is five non-ASCII characters that   *)
(* are not in the punctuation class, '---' three ASCII ones.               *)
(***************************************************************************)
\* DEFAULT_SYSTEM_PROMPT: 88 characters on three lines
defaultSystemPrompt ==
    Canonical(
        Rep("zh", 6) \o Rep("zhcomma", 1) \o Rep("zh", 8) \o Rep("zhdot", 1) \o Rep("nl", 1)
        \o Rep("zh", 9) \o Rep("zhcomma", 1) \o Rep("zh", 4) \o Rep("zhcomma", 1)
        \o Rep("zh", 6) \o Rep("zhcomma", 1) \o Rep("zh", 7) \o Rep("zhdot", 1) \o Rep("nl", 1)
        \o Rep("zh", 27) \o Rep("zhdot", 1) \o Rep("zh", 6) \o Rep("a", 1) \o Rep("zh", 1)
        \o Rep("a", 1) \o Rep("zh", 2) \o Rep("zhdot", 1))

NotProvided == Rep("zh", 3)
DefaultUserName == Rep("zh", 2)

\* a || b on strings
OrElse(a, b) == IF a = << >> THEN b ELSE a

RECURSIVE JoinLines(_)
\* sections.join('\n')
JoinLines(sections) ==
    IF sections = << >> THEN << >>
    ELSE IF Len(sections) = 1 THEN sections[1]
    ELSE Cat(sections[1], Cat(Rep("nl", 1), JoinLines(Tail(sections))))

buildSystemPromptContent(contact, settings) ==
    LET baseSystemPrompt == OrElse(sanitizeText(settings.systemPrompt), defaultSystemPrompt)
        rolePrompt == OrElse(sanitizeText(contact.prompt), NotProvided)
        worldBook == OrElse(sanitizeText(contact.worldBook), NotProvided)
        longMemory == sanitizeText(contact.longMemory)
        effectiveUserName ==
            OrElse(sanitizeText(contact.selfName),
                   OrElse(sanitizeText(settings.userName), DefaultUserName))
        effectiveUserPrompt ==
            OrElse(sanitizeText(contact.selfPrompt),
                   OrElse(sanitizeText(settings.userPrompt), NotProvided))
        head == << baseSystemPrompt,
                   Rep("a", 3),
                   Rep("zh", 5),
                   Cat(Rep("zh", 3), contact.name),
                   Cat(Rep("zh", 3), rolePrompt),
                   Cat(Rep("zh", 4), worldBook) >>
        memory == IF longMemory # << >>
                  THEN << << >>, Rep("zh", 18), longMemory >>
                  ELSE << >>
        user == << << >>,
                   Rep("zh", 5),
                   Cat(Rep("zh", 3), effectiveUserName),
                   Cat(Rep("zh", 3), effectiveUserPrompt) >>
    IN  JoinLines(head \o memory \o user)

(***************************************************************************)
(* buildChatPayload.  SelectMessages is the for loop of lines 95-110: it   *)
(* walks orderedHistory from index down to 1 and returns the messages      *)
(* pushed (newest first) with the running total.                           *)
(***************************************************************************)
\* a faulty variant of the reverse: the selection stays newest first
KeepOrder(s) == s

\* selectedMessages.reverse()
ReverseSeq(s) == [i \in 1..Len(s) |-> s[Len(s) + 1 - i]]

\* faulty variants of the loop: nothing is pushed when the newest message does not
\* fit; the newest message is pushed when it does not fit, and not counted
RECURSIVE SelectMessagesNoForce(_, _, _, _, _)
SelectMessagesNoForce(orderedHistory, index, totalTokens, selectedMessages, limit) ==
    IF index < 1
    THEN [selectedMessages |-> selectedMessages, totalTokens |-> totalTokens]
    ELSE LET message == orderedHistory[index]
             contentTokens == estimateTextTokens(message.content) + MESSAGE_TOKEN_OVERHEAD
             nextTotal == totalTokens + contentTokens
         IN  IF nextTotal > limit
             THEN [selectedMessages |-> selectedMessages, totalTokens |-> totalTokens]
             ELSE SelectMessagesNoForce(orderedHistory, index - 1, nextTotal,
                                        Append(selectedMessages, message), limit)

RECURSIVE SelectMessagesForcedFree(_, _, _, _, _)
SelectMessagesForcedFree(orderedHistory, index, totalTokens, selectedMessages, limit) ==
    IF index < 1
    THEN [selectedMessages |-> selectedMessages, totalTokens |-> totalTokens]
    ELSE LET message == orderedHistory[index]
             contentTokens == estimateTextTokens(message.content) + MESSAGE_TOKEN_OVERHEAD
             nextTotal == totalTokens + contentTokens
         IN  IF nextTotal > limit
             THEN IF Len(selectedMessages) = 0
                  THEN [selectedMessages |-> Append(selectedMessages, message),
                        totalTokens |-> totalTokens]
                  ELSE [selectedMessages |-> selectedMessages, totalTokens |-> totalTokens]
             ELSE SelectMessagesForcedFree(orderedHistory, index - 1, nextTotal,
                                           Append(selectedMessages, message), limit)

RECURSIVE SelectMessagesForcesLast(_, _, _, _, _)
\* a faulty variant: the message that does not fit is taken also when others are
SelectMessagesForcesLast(orderedHistory, index, totalTokens, selectedMessages, limit) ==
    IF index < 1
    THEN [selectedMessages |-> selectedMessages, totalTokens |-> totalTokens]
    ELSE LET message == orderedHistory[index]
             contentTokens == estimateTextTokens(message.content) + MESSAGE_TOKEN_OVERHEAD
             nextTotal == totalTokens + contentTokens
         IN  IF nextTotal > limit
             THEN [selectedMessages |-> Append(selectedMessages, message),
                   totalTokens |-> nextTotal]
             ELSE SelectMessagesForcesLast(orderedHistory, index - 1, nextTotal,
                                           Append(selectedMessages, message), limit)

RECURSIVE SelectMessages(_, _, _, _, _)
SelectMessages(orderedHistory, index, totalTokens, selectedMessages, limit) ==
    IF index < 1
    THEN [selectedMessages |-> selectedMessages, totalTokens |-> totalTokens]
    ELSE LET message == orderedHistory[index]
             contentTokens == estimateTextTokens(message.content) + MESSAGE_TOKEN_OVERHEAD
             nextTotal == totalTokens + contentTokens
         IN  IF nextTotal > limit
             THEN IF Len(selectedMessages) = 0
                  THEN [selectedMessages |-> Append(selectedMessages, message),
                        totalTokens |-> nextTotal]
                  ELSE [selectedMessages |-> selectedMessages, totalTokens |-> totalTokens]
             ELSE SelectMessages(orderedHistory, index - 1, nextTotal,
                                 Append(selectedMessages, message), limit)

ChatMessage(message) == [role |-> message.role, content |-> message.content]

buildChatPayload(contact, settings, history, tokenLimit) ==
    LET limit == resolveTokenLimit(Coalesce(tokenLimit, contact.tokenLimit))
        systemContent == buildSystemPromptContent(contact, settings)
        systemTokens == estimateTextTokens(systemContent) + SYSTEM_TOKEN_OVERHEAD
        loop == SelectMessages(history, Len(history), systemTokens, << >>, limit)
        selectedMessages == ReverseSeq(loop.selectedMessages)
    IN  [payloadMessages |->
            << [role |-> "system", content |-> systemContent] >>
            \o [i \in 1..Len(selectedMessages) |-> ChatMessage(selectedMessages[i])],
         tokenCount |-> loop.totalTokens,
         tokenLimit |-> limit]

(***************************************************************************)
(* The store (db.ts) and the program state.                                *)
(*   contacts, threads, messages : the three Dexie tables, as functions    *)
(*       from primary key to record;                                       *)
(*   nextContactId, nextThreadId : generateId(), a fresh key per call;     *)
(*   nextMessageId : the '++id' auto-increment key of messages;            *)
(*   clock    : Date.now();                                                *)
(*   settings : the settings store snapshot read by the prompt builder;    *)
(*   txq      : the IndexedDB transactions that have been created and have *)
(*       not completed yet, in creation order.  Every await of the service *)
(*       functions waits for one transaction; the entry carries what the   *)
(*       function needs to continue.  IndexedDB starts a transaction only  *)
(*       when no earlier created one with an overlapping scope is pending  *)
(*       (two read-only ones excepted);                                    *)
(*   calls    : the buildChatPayload calls made so far, with arguments and *)
(*       result; in the specifications of the estimator and of the reply   *)
(*       splitter, their calls.                                            *)
(***************************************************************************)
VARIABLES contacts, threads, messages, nextContactId, nextThreadId, nextMessageId,
          clock, settings, txq, calls

(***************************************************************************)
(* The chat screen (ChatApp.tsx) and what it talks to.                     *)
(*   error     : the error the screen shows (setError), "none" for null;   *)
(*   isSending : the isSending flag;                                       *)
(*   apiKey    : settings.apiKey;                                          *)
(*   llm       : the chatCompletion requests made so far, each with the    *)
(*       thread, the ids of the history it was built from, the payload,    *)
(*       and whether it is pending, answered or failed.                    *)
(***************************************************************************)
VARIABLES error, isSending, apiKey, llm

uiVars == <<error, isSending, apiKey, llm>>

(***************************************************************************)
(* What the handlers of the screen hold beside the store.                  *)
(*   regen   : the Regenerate requests that were let through, each with    *)
(*       the thread, the target, the ids it deletes (toDeleteIds) and how  *)
(*       many of its deleteMessageById calls have not returned yet;        *)
(*   handled : the last call of handleEditMessage or handleDeleteMessage,  *)
(*       with the id of its message (0 for a message without id) and the   *)
(*       answer to the prompt, and a bit that flips with every call.       *)
(***************************************************************************)
VARIABLES regen, handled

appVars == <<regen, handled>>

(***************************************************************************)
(* The route, the component and the auto-reply timer.                      *)
(*   route     : the contactId of the route (useParams), 0 for none;       *)
(*   mounted   : whether the chat component is mounted;                    *)
(*   autoReply : the contacts whose autoReplyEnabled is set;               *)
(*   autoReplyTimerRef : autoReplyTimerRef.current, 0 for null;            *)
(*   timers    : the timeouts set and neither cleared nor fired, each with *)
(*       its id and the thread of the requestAssistantReply it calls;      *)
(*   nextTimerId : the id the next setTimeout returns;                     *)
(*   effectDeps : the dependencies the auto-reply effect last ran with;    *)
(*   fired     : the last firing of a timeout: the thread it was set for,  *)
(*       the active thread and whether the component was mounted then.     *)
(***************************************************************************)
VARIABLES route, mounted, autoReply, autoReplyTimerRef, timers, nextTimerId,
          effectDeps, fired

timerVars == <<route, mounted, autoReply, autoReplyTimerRef, timers, nextTimerId,
               effectDeps, fired>>

(***************************************************************************)
(* How far a behaviour is followed.                                        *)
(*   replyCap : the number of reply requests after which no further one is *)
(*       started; each specification sets it at the start and no step      *)
(*       changes it.                                                       *)
(***************************************************************************)
VARIABLES replyCap

(***************************************************************************)
(* The calls of summarizeThreadLongMemory.                                 *)
(*   summaries : the calls that have passed their reads or have thrown,    *)
(*       each with its thread and contact, the longMemory the contact had  *)
(*       when it was read, the response, and how far the call has come:    *)
(*       thrown before the request (noThread, noContact, noKey,            *)
(*       noMessages), request pending, request failed (llmFailed), update  *)
(*       pending (updating), returned (done).                              *)
(***************************************************************************)
VARIABLES summaries

vars == <<contacts, threads, messages, nextContactId, nextThreadId, nextMessageId,
          clock, settings, txq, calls, uiVars, appVars, timerVars, replyCap, summaries>>

MaxReplies == 1

\* the value of effectDeps before the effect has run
NoDeps == [contact |-> 0, enabled |-> FALSE, thread |-> 0, pendingKey |-> 0,
           apiKey |-> << >>, isSending |-> FALSE, run |-> FALSE]

NotFired == [armedFor |-> 0, active |-> 0, mounted |-> FALSE]

\* the screen as it is mounted, with an API key configured
UiInit ==
    /\ error = "none"
    /\ isSending = FALSE
    /\ apiKey = Rep("a", 1)
    /\ llm = << >>
    /\ replyCap = MaxReplies
    /\ summaries = << >>
    /\ regen = << >>
    /\ handled = [op |-> "none", id |-> 0,
                  answer |-> [present |-> FALSE, value |-> << >>], flip |-> 0]
    /\ route = 1
    /\ mounted = TRUE
    /\ autoReply = {}
    /\ autoReplyTimerRef = 0
    /\ timers = {}
    /\ nextTimerId = 1
    /\ effectDeps = NoDeps
    /\ fired = NotFired

\* bounds of the model
MaxContacts == 2
MaxMessages == 2
MaxClock == 2
MaxOps == 2
MaxHist == 2

\* ' 的对话'
TitleSuffix == Str(<<"sp", "zh", "zh", "zh">>)

\* an update that does not carry the key
Absent == [kind |-> "absent", halves |-> 0]
NoName == [present |-> FALSE, value |-> << >>]
Name(text) == [present |-> TRUE, value |-> text]

NewContact(name, prompt) ==
    [name |-> name, prompt |-> prompt, worldBook |-> << >>, longMemory |-> << >>,
     selfName |-> << >>, selfPrompt |-> << >>, tokenLimit |-> Num(DEFAULT_TOKEN_LIMIT)]

\* a pending transaction and what the awaiting function holds: the arguments, and
\* for the reply flow the contact sendMessageToLLM has read (contact), the parts of
\* the response still to be written (rest), the chatCompletion request they come
\* from (request), the roles requestAssistantReply has read (seen) and the
\* Regenerate request that awaits it (regen, 0 for none)
NoTx == [kind |-> "none", mode |-> "ro", scope |-> {}, contactId |-> 0, threadId |-> 0,
         messageId |-> 0, threadIds |-> {}, role |-> "user", text |-> << >>, at |-> 0,
         name |-> NoName, tokenLimit |-> Absent,
         contact |-> NewContact(<< >>, << >>), rest |-> << >>, request |-> 0,
         seen |-> << >>, regen |-> 0]

Remove(q, i) == SubSeq(q, 1, i - 1) \o SubSeq(q, i + 1, Len(q))

\* IndexedDB transaction scheduling
Conflict(a, b) == a.scope \cap b.scope # {} /\ (a.mode = "rw" \/ b.mode = "rw")
CanRun(i) == \A j \in 1..(i - 1) : ~Conflict(txq[j], txq[i])

RoomForOp == Len(txq) < MaxOps

ThreadsOf(contactId) == {t \in DOMAIN threads : threads[t].contactId = contactId}
MessagesOf(threadId) == {m \in DOMAIN messages : messages[m].threadId = threadId}

\* db.messages.where({ threadId }).sortBy('createdAt'): a stable sort of the
\* records in primary-key order
Before(a, b) ==
    \/ messages[a].createdAt < messages[b].createdAt
    \/ messages[a].createdAt = messages[b].createdAt /\ a < b

RECURSIVE SortIds(_)
SortIds(ids) ==
    IF ids = {} THEN << >>
    ELSE LET first == CHOOSE a \in ids : \A b \in ids \ {a} : Before(a, b)
         IN  <<first>> \o SortIds(ids \ {first})

WithId(m) == [id |-> m, threadId |-> messages[m].threadId, role |-> messages[m].role,
              content |-> messages[m].content, createdAt |-> messages[m].createdAt]

ThreadHistory(threadId) ==
    LET ids == SortIds(MessagesOf(threadId))
    IN  [i \in 1..Len(ids) |-> WithId(ids[i])]

\* Date.now() moves on
Tick ==
    /\ clock < MaxClock
    /\ clock' = clock + 1
    /\ UNCHANGED <<contacts, threads, messages, nextContactId, nextThreadId,
                   nextMessageId, settings, replyCap, summaries, txq, calls, uiVars, appVars, timerVars>>

(***************************************************************************)
(* createContact: contacts.add, then threads.add, each in a transaction of *)
(* its own.                                                                *)
(***************************************************************************)
CreateContact(name) ==
    /\ RoomForOp
    /\ nextContactId <= MaxContacts
    /\ txq' = Append(txq, [NoTx EXCEPT !.kind = "contacts.add", !.mode = "rw",
                                       !.scope = {"contacts"},
                                       !.contactId = nextContactId,
                                       !.text = name])
    /\ nextContactId' = nextContactId + 1
    /\ UNCHANGED <<contacts, threads, messages, nextThreadId, nextMessageId,
                   clock, settings, replyCap, summaries, calls, uiVars, appVars, timerVars>>

CreateContactAddContact(i) ==
    /\ i \in 1..Len(txq)
    /\ txq[i].kind = "contacts.add"
    /\ CanRun(i)
    /\ contacts' = contacts @@ (txq[i].contactId :> NewContact(txq[i].text, Str(<<"zh">>)))
    /\ txq' = Append(Remove(txq, i),
                     [NoTx EXCEPT !.kind = "threads.add", !.mode = "rw",
                                  !.scope = {"threads"},
                                  !.contactId = txq[i].contactId,
                                  !.threadId = nextThreadId,
                                  !.text = Cat(txq[i].text, TitleSuffix),
                                  !.at = clock])
    /\ nextThreadId' = nextThreadId + 1
    /\ UNCHANGED <<threads, messages, nextContactId, nextMessageId, clock, settings, replyCap, summaries, calls, uiVars, appVars, timerVars>>

CreateContactAddThread(i) ==
    /\ i \in 1..Len(txq)
    /\ txq[i].kind = "threads.add"
    /\ CanRun(i)
    /\ threads' = threads @@ (txq[i].threadId :>
                     [contactId |-> txq[i].contactId, title |-> txq[i].text,
                      updatedAt |-> txq[i].at])
    /\ txq' = Remove(txq, i)
    /\ UNCHANGED <<contacts, messages, nextContactId, nextThreadId, nextMessageId,
                   clock, settings, replyCap, summaries, calls, uiVars, appVars, timerVars>>

\* an add is rejected by the store (quota, constraint): the awaiting function
\* throws; handleSendMessage catches and shows the error, handleCreateContact
\* does not catch
AddFails(i) ==
    /\ i \in 1..Len(txq)
    /\ txq[i].kind \in {"contacts.add", "threads.add", "messages.add"}
    /\ CanRun(i)
    /\ txq' = Remove(txq, i)
    /\ error' = IF txq[i].kind = "messages.add" THEN "failed" ELSE error
    /\ UNCHANGED <<contacts, threads, messages, nextContactId, nextThreadId,
                   nextMessageId, clock, settings, replyCap, summaries, calls, isSending, apiKey, llm, appVars, timerVars>>

(***************************************************************************)
(* updateContact: the updates are normalised, contacts.update runs in one  *)
(* transaction and, when updates.name is truthy, the thread titles are     *)
(* rewritten in a second one.  Of the normalised keys the model keeps name *)
(* and tokenLimit.                                                         *)
(***************************************************************************)
UpdateContact(contactId, name, tokenLimit) ==
    /\ RoomForOp
    /\ contactId \in DOMAIN contacts
    /\ txq' = Append(txq, [NoTx EXCEPT !.kind = "contacts.update", !.mode = "rw",
                                       !.scope = {"contacts"},
                                       !.contactId = contactId,
                                       !.name = name,
                                       !.tokenLimit =
                                           IF tokenLimit = Absent THEN Absent
                                           ELSE Num(resolveTokenLimit(tokenLimit))])
    /\ UNCHANGED <<contacts, threads, messages, nextContactId, nextThreadId,
                   nextMessageId, clock, settings, replyCap, summaries, calls, uiVars, appVars, timerVars>>

\* Table.update(key, changes): the record with the changed keys, nothing when the
\* key is not in the table
ApplyContactUpdates(contact, tx) ==
    [contact EXCEPT !.name = IF tx.name.present THEN tx.name.value ELSE @,
                    !.tokenLimit = IF tx.tokenLimit = Absent THEN @ ELSE tx.tokenLimit]

UpdateContactUpdate(i) ==
    /\ i \in 1..Len(txq)
    /\ txq[i].kind = "contacts.update"
    /\ CanRun(i)
    /\ contacts' = [c \in DOMAIN contacts |->
                       IF c = txq[i].contactId
                       THEN ApplyContactUpdates(contacts[c], txq[i])
                       ELSE contacts[c]]
    /\ txq' = IF txq[i].name.present /\ txq[i].name.value # << >>
              THEN Append(Remove(txq, i),
                          [NoTx EXCEPT !.kind = "threads.modify", !.mode = "rw",
                                       !.scope = {"threads"},
                                       !.contactId = txq[i].contactId,
                                       !.text = Cat(txq[i].name.value, TitleSuffix)])
              ELSE Remove(txq, i)
    /\ UNCHANGED <<threads, messages, nextContactId, nextThreadId, nextMessageId,
                   clock, settings, replyCap, summaries, calls, uiVars, appVars, timerVars>>

UpdateContactModifyThreads(i) ==
    /\ i \in 1..Len(txq)
    /\ txq[i].kind = "threads.modify"
    /\ CanRun(i)
    /\ threads' = [t \in DOMAIN threads |->
                      IF threads[t].contactId = txq[i].contactId
                      THEN [threads[t] EXCEPT !.title = txq[i].text]
                      ELSE threads[t]]
    /\ txq' = Remove(txq, i)
    /\ UNCHANGED <<contacts, messages, nextContactId, nextThreadId, nextMessageId,
                   clock, settings, replyCap, summaries, calls, uiVars, appVars, timerVars>>

(***************************************************************************)
(* deleteContact: the thread ids are read in a transaction of their own,   *)
(* then one transaction over messages, threads and contacts deletes.       *)
(***************************************************************************)
DeleteContact(contactId) ==
    /\ RoomForOp
    /\ contactId \in DOMAIN contacts
    /\ txq' = Append(txq, [NoTx EXCEPT !.kind = "threads.where", !.mode = "ro",
                                       !.scope = {"threads"},
                                       !.contactId = contactId])
    /\ UNCHANGED <<contacts, threads, messages, nextContactId, nextThreadId,
                   nextMessageId, clock, settings, replyCap, summaries, calls, uiVars, appVars, timerVars>>

DeleteContactRead(i) ==
    /\ i \in 1..Len(txq)
    /\ txq[i].kind = "threads.where"
    /\ CanRun(i)
    /\ txq' = Append(Remove(txq, i),
                     [NoTx EXCEPT !.kind = "deleteContact.transaction", !.mode = "rw",
                                  !.scope = {"messages", "threads", "contacts"},
                                  !.contactId = txq[i].contactId,
                                  !.threadIds = ThreadsOf(txq[i].contactId)])
    /\ UNCHANGED <<contacts, threads, messages, nextContactId, nextThreadId,
                   nextMessageId, clock, settings, replyCap, summaries, calls, uiVars, appVars, timerVars>>

\* a faulty variant of the transaction body: the messages are left behind
deleteContactBodyKeepsMessages(tx) ==
    LET keptThreads == {t \in DOMAIN threads : threads[t].contactId # tx.contactId}
        keptContacts == DOMAIN contacts \ {tx.contactId}
    IN  [messages |-> messages,
         threads |-> [t \in keptThreads |-> threads[t]],
         contacts |-> [c \in keptContacts |-> contacts[c]]]

\* the three deletes of the transaction body, on a copy of the tables
deleteContactBody(tx) ==
    LET keptMessages == {m \in DOMAIN messages : messages[m].threadId \notin tx.threadIds}
        keptThreads == {t \in DOMAIN threads : threads[t].contactId # tx.contactId}
        keptContacts == DOMAIN contacts \ {tx.contactId}
    IN  [messages |-> [m \in keptMessages |-> messages[m]],
         threads |-> [t \in keptThreads |-> threads[t]],
         contacts |-> [c \in keptContacts |-> contacts[c]]]

DeleteContactTransaction(i) ==
    /\ i \in 1..Len(txq)
    /\ txq[i].kind = "deleteContact.transaction"
    /\ CanRun(i)
    /\ LET after == deleteContactBody(txq[i])
       IN  /\ messages' = after.messages
           /\ threads' = after.threads
           /\ contacts' = after.contacts
    /\ txq' = Remove(txq, i)
    /\ UNCHANGED <<nextContactId, nextThreadId, nextMessageId, clock, settings, replyCap, summaries, calls, uiVars, appVars, timerVars>>

(***************************************************************************)
(* persistMessage / saveMessage, as called by handleSendMessage for a      *)
(* non-empty trimmed input: createdAt is read when persistMessage is       *)
(* called, messages.add runs in one transaction and threads.update in a    *)
(* second one.  SendMessage is handleSendMessage({requestReply: false})    *)
(* with an input that is not empty when trimmed, SendEmpty the same call   *)
(* with an input that is: the handler returns at line 1619.                *)
(***************************************************************************)
PendingAdds == Cardinality({i \in 1..Len(txq) : txq[i].kind = "messages.add"})

SendMessage(threadId, inputValue) ==
    /\ RoomForOp
    /\ threadId \in DOMAIN threads
    /\ threads[threadId].contactId \in DOMAIN contacts
    /\ Trim(inputValue) # << >>
    /\ nextMessageId + PendingAdds <= MaxMessages
    /\ txq' = Append(txq, [NoTx EXCEPT !.kind = "messages.add", !.mode = "rw",
                                       !.scope = {"messages"},
                                       !.threadId = threadId, !.role = "user",
                                       !.text = Trim(inputValue), !.at = clock])
    /\ error' = "none"
    /\ UNCHANGED <<contacts, threads, messages, nextContactId, nextThreadId,
                   nextMessageId, clock, settings, replyCap, summaries, calls, isSending, apiKey, llm, appVars, timerVars>>

SendEmpty(threadId, inputValue) ==
    /\ threadId \in DOMAIN threads
    /\ threads[threadId].contactId \in DOMAIN contacts
    /\ Trim(inputValue) = << >>
    /\ UNCHANGED vars

SaveMessageAdd(i) ==
    /\ i \in 1..Len(txq)
    /\ txq[i].kind = "messages.add"
    /\ CanRun(i)
    /\ messages' = messages @@ (nextMessageId :>
                      [threadId |-> txq[i].threadId, role |-> txq[i].role,
                       content |-> txq[i].text, createdAt |-> txq[i].at])
    /\ nextMessageId' = nextMessageId + 1
    /\ txq' = Append(Remove(txq, i),
                     [NoTx EXCEPT !.kind = "threads.update", !.mode = "rw",
                                  !.scope = {"threads"},
                                  !.threadId = txq[i].threadId, !.at = txq[i].at])
    /\ UNCHANGED <<contacts, threads, nextContactId, nextThreadId, clock, settings, replyCap, summaries, calls, uiVars, appVars, timerVars>>

\* db.threads.update(threadId, { updatedAt }): nothing when the thread is gone
BumpThread(threadId, updatedAt) ==
    [t \in DOMAIN threads |->
        IF t = threadId THEN [threads[t] EXCEPT !.updatedAt = updatedAt] ELSE threads[t]]

SaveMessageUpdateThread(i) ==
    /\ i \in 1..Len(txq)
    /\ txq[i].kind = "threads.update"
    /\ CanRun(i)
    /\ threads' = BumpThread(txq[i].threadId, txq[i].at)
    /\ txq' = Remove(txq, i)
    /\ UNCHANGED <<contacts, messages, nextContactId, nextThreadId, nextMessageId,
                   clock, settings, replyCap, summaries, calls, uiVars, appVars, timerVars>>

(***************************************************************************)
(* deleteMessageById and updateMessageContent: the message is read in one  *)
(* transaction; if it exists, one transaction over messages and threads    *)
(* changes it and sets the thread's updatedAt to Date.now().               *)
(***************************************************************************)
DeleteMessageById(messageId) ==
    /\ RoomForOp
    /\ messageId \in DOMAIN messages
    /\ txq' = Append(txq, [NoTx EXCEPT !.kind = "delete.messages.get", !.mode = "ro",
                                       !.scope = {"messages"},
                                       !.messageId = messageId])
    /\ UNCHANGED <<contacts, threads, messages, nextContactId, nextThreadId,
                   nextMessageId, clock, settings, replyCap, summaries, calls, uiVars, appVars, timerVars>>

DeleteMessageGet(i) ==
    /\ i \in 1..Len(txq)
    /\ txq[i].kind = "delete.messages.get"
    /\ CanRun(i)
    /\ txq' = IF txq[i].messageId \in DOMAIN messages
              THEN Append(Remove(txq, i),
                          [NoTx EXCEPT !.kind = "deleteMessage.transaction", !.mode = "rw",
                                       !.scope = {"messages", "threads"},
                                       !.messageId = txq[i].messageId,
                                       !.threadId = messages[txq[i].messageId].threadId])
              ELSE Remove(txq, i)
    /\ UNCHANGED <<contacts, threads, messages, nextContactId, nextThreadId,
                   nextMessageId, clock, settings, replyCap, summaries, calls, uiVars, appVars, timerVars>>

DeleteMessageTransaction(i) ==
    /\ i \in 1..Len(txq)
    /\ txq[i].kind = "deleteMessage.transaction"
    /\ CanRun(i)
    /\ messages' = [m \in DOMAIN messages \ {txq[i].messageId} |-> messages[m]]
    /\ threads' = BumpThread(txq[i].threadId, clock)
    /\ txq' = Remove(txq, i)
    /\ UNCHANGED <<contacts, nextContactId, nextThreadId, nextMessageId, clock,
                   settings, replyCap, summaries, calls, uiVars, appVars, timerVars>>

UpdateMessageContent(messageId, content) ==
    /\ RoomForOp
    /\ messageId \in DOMAIN messages
    /\ Trim(content) # << >>
    /\ txq' = Append(txq, [NoTx EXCEPT !.kind = "update.messages.get", !.mode = "ro",
                                       !.scope = {"messages"},
                                       !.messageId = messageId, !.text = Trim(content)])
    /\ UNCHANGED <<contacts, threads, messages, nextContactId, nextThreadId,
                   nextMessageId, clock, settings, replyCap, summaries, calls, uiVars, appVars, timerVars>>

UpdateMessageGet(i) ==
    /\ i \in 1..Len(txq)
    /\ txq[i].kind = "update.messages.get"
    /\ CanRun(i)
    /\ txq' = IF txq[i].messageId \in DOMAIN messages
              THEN Append(Remove(txq, i),
                          [NoTx EXCEPT !.kind = "updateMessage.transaction", !.mode = "rw",
                                       !.scope = {"messages", "threads"},
                                       !.messageId = txq[i].messageId,
                                       !.threadId = messages[txq[i].messageId].threadId,
                                       !.text = txq[i].text])
              ELSE Remove(txq, i)
    /\ UNCHANGED <<contacts, threads, messages, nextContactId, nextThreadId,
                   nextMessageId, clock, settings, replyCap, summaries, calls, uiVars, appVars, timerVars>>

UpdateMessageTransaction(i) ==
    /\ i \in 1..Len(txq)
    /\ txq[i].kind = "updateMessage.transaction"
    /\ CanRun(i)
    /\ messages' = [m \in DOMAIN messages |->
                       IF m = txq[i].messageId
                       THEN [messages[m] EXCEPT !.content = txq[i].text]
                       ELSE messages[m]]
    /\ threads' = BumpThread(txq[i].threadId, clock)
    /\ txq' = Remove(txq, i)
    /\ UNCHANGED <<contacts, nextContactId, nextThreadId, nextMessageId, clock,
                   settings, replyCap, summaries, calls, uiVars, appVars, timerVars>>

(***************************************************************************)
(* A call of buildChatPayload for a contact of the store, with the history *)
(* of its thread as sendMessageToLLM reads it and an explicit tokenLimit   *)
(* argument (Undefined when the caller passes none).  calls records the    *)
(* arguments and the result; a call is recorded while at most `earlier`    *)
(* calls have been.                                                        *)
(***************************************************************************)
BuildChatPayload(contactId, tokenLimit, earlier) ==
    /\ Len(calls) <= earlier
    /\ contactId \in DOMAIN contacts
    /\ \E threadId \in ThreadsOf(contactId) :
          calls' = Append(calls,
                          [contact |-> contacts[contactId],
                           tokenLimit |-> tokenLimit,
                           payload |-> buildChatPayload(contacts[contactId], settings,
                                           ThreadHistory(threadId), tokenLimit)])
    /\ UNCHANGED <<contacts, threads, messages, nextContactId, nextThreadId,
                   nextMessageId, clock, settings, replyCap, summaries, txq, uiVars, appVars, timerVars>>

(***************************************************************************)
(* Inputs.                                                                 *)
(***************************************************************************)
\* the defaults of the settings store: the built-in prompt, userName '我'
DefaultSettings == [systemPrompt |-> defaultSystemPrompt, userName |-> Str(<<"zh">>),
                    userPrompt |-> << >>]
\* a one-letter system prompt and a user persona
ShortSettings == [systemPrompt |-> Str(<<"sp", "a", "nl">>), userName |-> << >>,
                  userPrompt |-> Str(<<"a", "dot">>)]
SettingsSamples == {DefaultSettings, ShortSettings}

\* what the user types: a contact name, a message (trimmed by the handler), an edit
ContactName == Str(<<"a">>)
NewName == Str(<<"zh", "a">>)
SentInput == Str(<<"sp", "a", "nl">>)
EditedInput == Str(<<"zh", "zhdot", "sp">>)
BlankInput == Str(<<"sp", "nl">>)

\* message contents costing 6, 100, 201 and 1000 tokens with the overhead of 4
Content6 == Str(<<"a", "a", "a", "sp", "a">>)
Content100 == Rep("zh", 96)
Content201 == Rep("a", 40) \o Rep("sp", 1) \o Rep("zh", 185) \o Rep("zhdot", 1)
Content1000 == Rep("zh", 996)
HistoryContents == {Content6, Content100, Content201}

LimitSamples == {Undefined, NaN, PosInfinity, NegInfinity, Num(320), Num(500),
                 Halves(1401), Num(20000), Num(200000)}

\* the limits given to updateContact
UpdateSamples == LimitSamples \ {Num(20000)}

\* a contact whose system message costs 50 tokens under ShortSettings
ScenarioContact ==
    [name |-> Rep("zh", 5), prompt |-> Str(<<"a">>), worldBook |-> Str(<<"a">>),
     longMemory |-> << >>, selfName |-> Str(<<"a">>), selfPrompt |-> Str(<<"a">>),
     tokenLimit |-> Undefined]
\* a contact as createContact leaves it, with a long memory and a stored limit
StoredContact ==
    [name |-> Rep("zh", 2), prompt |-> Str(<<"zh">>), worldBook |-> << >>,
     longMemory |-> Str(<<"zh", "zhcomma", "zh">>), selfName |-> << >>, selfPrompt |-> << >>,
     tokenLimit |-> Num(600)]
\* a contact whose prompt alone costs more than the smallest limit
VerboseContact ==
    [name |-> Str(<<"a">>), prompt |-> Rep("zh", 600), worldBook |-> << >>,
     longMemory |-> << >>, selfName |-> << >>, selfPrompt |-> << >>,
     tokenLimit |-> Num(MIN_TOKEN_LIMIT)]
ContactSamples == {ScenarioContact, StoredContact, VerboseContact}

SeqsUpTo(S, n) == UNION {[1..k -> S] : k \in 0..n}

HistorySamples ==
    SeqsUpTo(HistoryContents, MaxHist)
    \cup {[i \in 1..5 |-> Content100], <<Content1000>>}

\* the messages table holding the given contents as one thread's history
MessagesFrom(contents) ==
    [m \in 1..Len(contents) |->
        [threadId |-> 1, role |-> IF m % 2 = 1 THEN "user" ELSE "assistant",
         content |-> contents[m], createdAt |-> m]]

InitPayload ==
    /\ \E contact \in ContactSamples : contacts = (1 :> contact)
    /\ \E contents \in HistorySamples :
          /\ messages = MessagesFrom(contents)
          /\ nextMessageId = Len(contents) + 1
          /\ clock = Len(contents)
          /\ threads = (1 :> [contactId |-> 1, title |-> Cat(contacts[1].name, TitleSuffix),
                              updatedAt |-> Len(contents)])
    /\ settings \in SettingsSamples
    /\ nextContactId = 2
    /\ nextThreadId = 2
    /\ txq = << >>
    /\ calls = << >>
    /\ UiInit

\* two calls, to compare the results of two limits on the same inputs
NextPayload ==
    \E tokenLimit \in LimitSamples : BuildChatPayload(1, tokenLimit, 1)

SpecPayload == InitPayload /\ [][NextPayload]_vars

\* a contact as createContact stores it, or one stored before contacts had a
\* tokenLimit, its thread and one message; the stored tokenLimit is then whatever
\* updateContact makes of it
InitLimits ==
    /\ \E stored \in {Num(DEFAULT_TOKEN_LIMIT), Undefined} :
          contacts = (1 :> [NewContact(ContactName, Str(<<"zh">>))
                               EXCEPT !.tokenLimit = stored])
    /\ threads = (1 :> [contactId |-> 1, title |-> Cat(ContactName, TitleSuffix),
                        updatedAt |-> 0])
    /\ messages = MessagesFrom(<<Content6>>)
    /\ nextContactId = 2
    /\ nextThreadId = 2
    /\ nextMessageId = 2
    /\ clock = 1
    /\ settings = DefaultSettings
    /\ txq = << >>
    /\ calls = << >>
    /\ UiInit

NextLimits ==
    \/ \E tokenLimit \in UpdateSamples : UpdateContact(1, NoName, tokenLimit)
    \/ UpdateContact(1, Name(NewName), Absent)
    \/ \E i \in 1..MaxOps : UpdateContactUpdate(i)
    \/ \E i \in 1..MaxOps : UpdateContactModifyThreads(i)
    \/ \E tokenLimit \in LimitSamples : BuildChatPayload(1, tokenLimit, 0)

SpecLimits == InitLimits /\ [][NextLimits]_vars

Init ==
    /\ contacts = << >>
    /\ threads = << >>
    /\ messages = << >>
    /\ nextContactId = 1
    /\ nextThreadId = 1
    /\ nextMessageId = 1
    /\ clock = 0
    /\ settings = DefaultSettings
    /\ txq = << >>
    /\ calls = << >>
    /\ UiInit

Next ==
    \/ Tick
    \/ CreateContact(ContactName)
    \/ \E i \in 1..MaxOps : CreateContactAddContact(i)
    \/ \E i \in 1..MaxOps : CreateContactAddThread(i)
    \/ \E i \in 1..MaxOps : AddFails(i)
    \/ \E c \in 1..MaxContacts : DeleteContact(c)
    \/ \E i \in 1..MaxOps : DeleteContactRead(i)
    \/ \E i \in 1..MaxOps : DeleteContactTransaction(i)
    \/ \E t \in 1..MaxContacts : SendMessage(t, SentInput)
    \/ \E i \in 1..MaxOps : SaveMessageAdd(i)
    \/ \E i \in 1..MaxOps : SaveMessageUpdateThread(i)
    \/ \E m \in 1..MaxMessages : DeleteMessageById(m)
    \/ \E i \in 1..MaxOps : DeleteMessageGet(i)
    \/ \E i \in 1..MaxOps : DeleteMessageTransaction(i)
    \/ \E m \in 1..MaxMessages : UpdateMessageContent(m, EditedInput)
    \/ \E i \in 1..MaxOps : UpdateMessageGet(i)
    \/ \E i \in 1..MaxOps : UpdateMessageTransaction(i)

Spec == Init /\ [][Next]_vars

NextDelete ==
    \/ CreateContact(ContactName)
    \/ \E i \in 1..MaxOps : CreateContactAddContact(i)
    \/ \E i \in 1..MaxOps : CreateContactAddThread(i)
    \/ \E i \in 1..MaxOps : AddFails(i)
    \/ \E c \in 1..MaxContacts : DeleteContact(c)
    \/ \E i \in 1..MaxOps : DeleteContactRead(i)
    \/ \E i \in 1..MaxOps : DeleteContactTransaction(i)
    \/ \E t \in 1..MaxContacts : SendMessage(t, SentInput)
    \/ \E i \in 1..MaxOps : SaveMessageAdd(i)
    \/ \E i \in 1..MaxOps : SaveMessageUpdateThread(i)

SpecDelete == Init /\ [][NextDelete]_vars

(***************************************************************************)
(* Properties of buildChatPayload, stated on the recorded calls.  Neither  *)
(* SpecPayload nor SpecLimits writes messages or settings, so the history  *)
(* and the settings of every recorded call are those of the state.         *)
(***************************************************************************)
CallHistory == ThreadHistory(1)
Selected(call) == Tail(call.payload.payloadMessages)
SystemCost(call) ==
    estimateTextTokens(call.payload.payloadMessages[1].content) + SYSTEM_TOKEN_OVERHEAD
MessageCost(message) == estimateTextTokens(message.content) + MESSAGE_TOKEN_OVERHEAD
\* the limit a call asks for: the argument, or the contact's when there is none
Requested(call) ==
    IF call.tokenLimit # Undefined THEN call.tokenLimit ELSE call.contact.tokenLimit

(* C1: the payload of every call is exactly one system message, built from *)
(* the contact and the settings, followed by the last n messages of the    *)
(* history in history order, for some n: a contiguous suffix, nothing      *)
(* reordered, nothing twice.                                               *)
PayloadIsSystemThenSuffix ==
    \A k \in 1..Len(calls) :
        LET p == calls[k].payload.payloadMessages
            h == CallHistory
            n == Len(p) - 1
        IN  /\ n \in 0..Len(h)
            /\ p[1] = [role |-> "system",
                       content |-> buildSystemPromptContent(calls[k].contact, settings)]
            /\ \A i \in 1..n :
                  /\ p[i + 1].role = h[Len(h) - n + i].role
                  /\ p[i + 1].content = h[Len(h) - n + i].content
                  /\ p[i + 1].role # "system"

\* a call that selected at least two different messages and left older ones out
ProperSuffixSelected ==
    \E k \in 1..Len(calls) :
        LET p == calls[k].payload.payloadMessages
        IN  /\ Len(p) >= 3
            /\ Len(p) - 1 < Len(CallHistory)
            /\ p[2] # p[3]

(* C2: when the history is not empty, the payload of every call holds at   *)
(* least one message after the system message, and its last message is the *)
(* most recent message of the history, whatever the costs and the limit.   *)
NonEmptyHistoryIsRepresented ==
    \A k \in 1..Len(calls) :
        LET p == calls[k].payload.payloadMessages
            h == CallHistory
        IN  h # << >> =>
               /\ Len(p) >= 2
               /\ p[Len(p)].role = h[Len(h)].role
               /\ p[Len(p)].content = h[Len(h)].content
               /\ p[Len(p)].role # "system"

\* a call whose system message alone, and whose newest message alone, cost more
\* than the resolved limit: the newest message is in the payload all the same
OversizedCallStillSelects ==
    \E k \in 1..Len(calls) :
        /\ CallHistory # << >>
        /\ SystemCost(calls[k]) > calls[k].payload.tokenLimit
        /\ MessageCost(CallHistory[Len(CallHistory)]) > calls[k].payload.tokenLimit
        /\ Len(Selected(calls[k])) = 1

\* JavaScript's a <= b on the values a limit can take
LimitLeq(a, b) ==
    /\ a.kind \in {"number", "Infinity", "-Infinity"}
    /\ b.kind \in {"number", "Infinity", "-Infinity"}
    /\ \/ a.kind = "-Infinity"
       \/ b.kind = "Infinity"
       \/ a.kind = "number" /\ b.kind = "number" /\ a.halves <= b.halves

(* C3, as stated: for two calls on the same contact, settings and history  *)
(* with limits L1 <= L2, the call with L1 selects no more messages than    *)
(* the call with L2.                                                       *)
SelectionMonotoneInLimit ==
    \A j, k \in 1..Len(calls) :
        LimitLeq(Requested(calls[j]), Requested(calls[k]))
            => Len(Selected(calls[j])) <= Len(Selected(calls[k]))

(* C3, amended: for two calls on the same contact, settings and history    *)
(* with finite limits L1 <= L2 (clamped or floored as they may be), the    *)
(* call with L1 selects no more messages than the call with L2.            *)
SelectionMonotoneInFiniteLimit ==
    \A j, k \in 1..Len(calls) :
        (/\ Requested(calls[j]).kind = "number"
         /\ Requested(calls[k]).kind = "number"
         /\ Requested(calls[j]).halves <= Requested(calls[k]).halves)
            => Len(Selected(calls[j])) <= Len(Selected(calls[k]))

\* two calls, the first with a limit under the minimum, the second with a larger
\* one that selects more
LargerFiniteLimitSelectsMore ==
    \E j, k \in 1..Len(calls) :
        /\ Requested(calls[j]).kind = "number"
        /\ Requested(calls[k]).kind = "number"
        /\ Requested(calls[j]).halves < 2 * MIN_TOKEN_LIMIT
        /\ Requested(calls[j]).halves < Requested(calls[k]).halves
        /\ Len(Selected(calls[j])) < Len(Selected(calls[k]))

\* Scenario A: five messages costing 100 each, a system cost of 50, a limit of 320
ScenarioA(call) ==
    /\ Len(CallHistory) = 5
    /\ \A i \in 1..5 : MessageCost(CallHistory[i]) = 100
    /\ SystemCost(call) = 50
    /\ call.tokenLimit = Num(320)

(* C4, as stated: in Scenario A exactly the 2 most recent messages are     *)
(* selected.                                                               *)
ScenarioASelectsTwo ==
    \A k \in 1..Len(calls) :
        ScenarioA(calls[k]) => Len(Selected(calls[k])) = 2

(* C4, amended: in Scenario A the limit of 320 is raised to the minimum of *)
(* 500 and exactly the 4 most recent messages are selected, for a total of *)
(* 450.                                                                    *)
ScenarioASelectsFour ==
    \A k \in 1..Len(calls) :
        ScenarioA(calls[k]) =>
            /\ calls[k].payload.tokenLimit = 500
            /\ Len(Selected(calls[k])) = 4
            /\ \A i \in 1..4 : Selected(calls[k])[i].role = CallHistory[i + 1].role
            /\ calls[k].payload.tokenCount = 450

ScenarioAHappened == \E k \in 1..Len(calls) : ScenarioA(calls[k])

\* Scenario B: one message costing 1000, a limit of 500
ScenarioB(call) ==
    /\ Len(CallHistory) = 1
    /\ MessageCost(CallHistory[1]) = 1000
    /\ call.tokenLimit = Num(500)

(* C5: the tokenCount of every call is the cost of the system message      *)
(* (estimate + 12) plus, for every selected message, its estimate + 4, a   *)
(* force-included message counted like any other; in Scenario B the single *)
(* message is selected and the total is 1000 + system, above the limit.    *)
TokenCountIsSystemPlusSelected ==
    \A k \in 1..Len(calls) :
        LET selected == Selected(calls[k])
        IN  /\ calls[k].payload.tokenCount =
                  SystemCost(calls[k])
                  + Sum([i \in 1..Len(selected) |-> MessageCost(selected[i])])
            /\ ScenarioB(calls[k]) =>
                  /\ Len(selected) = 1
                  /\ calls[k].payload.tokenCount = 1000 + SystemCost(calls[k])
                  /\ calls[k].payload.tokenCount > calls[k].payload.tokenLimit
                  /\ calls[k].payload.tokenLimit = 500

ScenarioBHappened == \E k \in 1..Len(calls) : ScenarioB(calls[k])

\* what is said of a limit resolved from a request: an integer of 500..128000,
\* 16000 when the request is not a finite number, the request itself when it is an
\* integer of 500..128000
Conforms(requested, limit) ==
    /\ limit \in 500..128000
    /\ requested.kind # "number" => limit = 16000
    /\ (/\ requested.kind = "number"
        /\ requested.halves % 2 = 0
        /\ (requested.halves \div 2) \in 500..128000) => limit = requested.halves \div 2

\* every recorded call: the argument if there is one, else the stored limit, else 16000
EffectiveLimitConforms ==
    \A k \in 1..Len(calls) : Conforms(Requested(calls[k]), calls[k].payload.tokenLimit)

\* a stored limit is absent (a record updateContact never wrote) or an integer in range
StoredLimitInRange ==
    \A c \in DOMAIN contacts :
        \/ contacts[c].tokenLimit = Undefined
        \/ /\ contacts[c].tokenLimit.kind = "number"
           /\ contacts[c].tokenLimit.halves % 2 = 0
           /\ (contacts[c].tokenLimit.halves \div 2) \in 500..128000

\* updateContact resolves the tokenLimit it is given
UpdateResolvesLimit ==
    \A tokenLimit \in UpdateSamples :
        UpdateContact(1, NoName, tokenLimit) =>
            /\ txq'[Len(txq')].tokenLimit.kind = "number"
            /\ txq'[Len(txq')].tokenLimit.halves % 2 = 0
            /\ Conforms(tokenLimit, txq'[Len(txq')].tokenLimit.halves \div 2)

\* contacts.update stores the resolved tokenLimit, or leaves the stored one alone
\* when the update has none
UpdateStoresLimit ==
    \A i \in 1..Len(txq) :
        UpdateContactUpdate(i) =>
            contacts'[txq[i].contactId].tokenLimit =
                IF txq[i].tokenLimit = Absent
                THEN contacts[txq[i].contactId].tokenLimit
                ELSE txq[i].tokenLimit

(* C6: the limit buildChatPayload returns is resolved from the explicit    *)
(* argument if there is one, else from the contact's stored tokenLimit,    *)
(* else it is 16000; it is always an integer of 500..128000, and 16000     *)
(* when the request is not a number, NaN or infinite.  The tokenLimit that *)
(* updateContact stores is resolved in the same way.                       *)
TokenLimitIsResolved ==
    /\ [](EffectiveLimitConforms /\ StoredLimitInRange)
    /\ [][UpdateResolvesLimit /\ UpdateStoresLimit]_vars

\* a call without argument, on a contact whose stored limit updateContact clamped
\* to the maximum
StoredMaximumIsEffective ==
    \E k \in 1..Len(calls) :
        /\ calls[k].tokenLimit = Undefined
        /\ calls[k].contact.tokenLimit = Num(128000)
        /\ calls[k].payload.tokenLimit = 128000

(***************************************************************************)
(* Properties of the store.                                                *)
(***************************************************************************)
(* C7: in every state, every contact has exactly one thread whose          *)
(* contactId is the contact's id.                                          *)
EveryContactHasOneThread ==
    \A c \in DOMAIN contacts : Cardinality(ThreadsOf(c)) = 1

\* the step that completes deleteContact(X): afterwards there is no contact X, no
\* thread of X and no message of X's threads (those stored with contactId X and
\* those deleteContact read); the other contacts, their threads and the messages of
\* their threads are as before
DeleteContactPostcondition ==
    \A i \in 1..Len(txq) :
        DeleteContactTransaction(i) =>
            LET X == txq[i].contactId
                threadsOfX == {t \in DOMAIN threads : threads[t].contactId = X}
                              \cup txq[i].threadIds
                otherThreads == DOMAIN threads \ threadsOfX
                otherMessages == {m \in DOMAIN messages : messages[m].threadId \notin threadsOfX}
            IN  /\ X \notin DOMAIN contacts'
                /\ \A t \in DOMAIN threads' : threads'[t].contactId # X
                /\ \A m \in DOMAIN messages' : messages'[m].threadId \notin threadsOfX
                /\ DOMAIN contacts' = DOMAIN contacts \ {X}
                /\ \A c \in DOMAIN contacts' : contacts'[c] = contacts[c]
                /\ DOMAIN threads' = otherThreads
                /\ \A t \in otherThreads : threads'[t] = threads[t]
                /\ DOMAIN messages' = otherMessages
                /\ \A m \in otherMessages : messages'[m] = messages[m]

\* a step that removes a contact removes its threads, and a step that removes a
\* thread removes its messages, in the same step
CascadeInOneStep ==
    /\ \A c \in DOMAIN contacts \ DOMAIN contacts' :
          \A t \in DOMAIN threads' : threads'[t].contactId # c
    /\ \A t \in DOMAIN threads \ DOMAIN threads' :
          \A m \in DOMAIN messages' : messages'[m].threadId # t

\* no thread is stored whose contact is absent
EveryThreadHasItsContact ==
    \A t \in DOMAIN threads : threads[t].contactId \in DOMAIN contacts

(* C8: when deleteContact(X) completes there is no contact X, no thread    *)
(* with contactId X and no message of X's threads, and every other         *)
(* contact, thread and message is unchanged; the deletion shows no         *)
(* intermediate state: no state has a thread whose contact is absent, and  *)
(* the step that removes a thread removes its messages.                    *)
DeleteContactIsAtomicCascade ==
    /\ []EveryThreadHasItsContact
    /\ [][DeleteContactPostcondition /\ CascadeInOneStep]_vars

\* a contact with a stored message was deleted, and the other contact's thread and
\* message are still there
ContactDeletedOtherKept ==
    /\ nextMessageId = 3
    /\ DOMAIN messages = {2}
    /\ messages[2].threadId \in DOMAIN threads
    /\ Cardinality(DOMAIN contacts) = 1
    /\ Cardinality(DOMAIN threads) = 1
    /\ nextContactId = 3

(* C9: in every reachable state every stored message has a threadId that   *)
(* names a stored thread.                                                  *)
NoMessageOutlivesItsThread ==
    \A m \in DOMAIN messages : messages[m].threadId \in DOMAIN threads

(* C10: no step lowers the updatedAt of a thread, the clock never going    *)
(* back.                                                                   *)
UpdatedAtNeverDecreases ==
    [][\A t \in DOMAIN threads \cap DOMAIN threads' :
          threads'[t].updatedAt >= threads[t].updatedAt]_vars

(***************************************************************************)
(* createContact and updateContact with the names an update can carry: no  *)
(* name key, the empty string, a new name.                                 *)
(***************************************************************************)
NameSamples == {NoName, Name(<< >>), Name(NewName)}

NextRename ==
    \/ CreateContact(ContactName)
    \/ \E i \in 1..MaxOps : CreateContactAddContact(i)
    \/ \E i \in 1..MaxOps : CreateContactAddThread(i)
    \/ \E c \in 1..MaxContacts, name \in NameSamples : UpdateContact(c, name, Absent)
    \/ \E i \in 1..MaxOps : UpdateContactUpdate(i)
    \/ \E i \in 1..MaxOps : UpdateContactModifyThreads(i)

SpecRename == Init /\ [][NextRename]_vars

\* no createContact or updateContact of the contact is under way
ContactSettled(c) == \A i \in 1..Len(txq) : txq[i].contactId # c

(* C11: once createContact and every updateContact of a contact have       *)
(* completed, whatever name the updates carried, the contact has exactly   *)
(* one thread and its title is the contact's stored name followed by       *)
(* ' 的对话'.                                                               *)
TitleFollowsName ==
    \A c \in DOMAIN contacts :
        ContactSettled(c) =>
            /\ Cardinality(ThreadsOf(c)) = 1
            /\ \A t \in ThreadsOf(c) : threads[t].title = Cat(contacts[c].name, TitleSuffix)

(***************************************************************************)
(* splitAssistantResponse (ChatApp.tsx 45-70), on the text character by    *)
(* character.  Of the sentence terminators of the pattern the alphabet has *)
(* two: the ideographic full stop and the exclamation mark.                *)
(***************************************************************************)
IsTerminator(c) == c \in {"zhdot", "bang"}

RECURSIVE Flat(_)
\* the characters of a text, one by one
Flat(s) ==
    IF s = << >> THEN << >>
    ELSE [i \in 1..Head(s).n |-> Head(s).c] \o Flat(Tail(s))

RECURSIVE DropCrBeforeNl(_)
\* content.replace(/\r\n/g, '\n')
DropCrBeforeNl(q) ==
    IF q = << >> THEN << >>
    ELSE IF Len(q) >= 2 /\ q[1] = "cr" /\ q[2] = "nl" THEN DropCrBeforeNl(Tail(q))
    ELSE <<Head(q)>> \o DropCrBeforeNl(Tail(q))

\* trim() on characters
FlatTrim(q) ==
    LET inside == {i \in 1..Len(q) : ~IsWhitespace(q[i])}
    IN  IF inside = {} THEN << >>
        ELSE SubSeq(q, CHOOSE i \in inside : \A j \in inside : i <= j,
                       CHOOSE i \in inside : \A j \in inside : i >= j)

RECURSIVE SplitParagraphs(_, _)
\* normalized.split(/\n+/).map(trim).filter(Boolean); current is the paragraph read so far
SplitParagraphs(q, current) ==
    LET done == IF FlatTrim(current) = << >> THEN << >> ELSE << FlatTrim(current) >>
    IN  IF q = << >> THEN done
        ELSE IF Head(q) = "nl" THEN done \o SplitParagraphs(Tail(q), << >>)
        ELSE SplitParagraphs(Tail(q), Append(current, Head(q)))

RECURSIVE MatchSentencesWithoutTerminator(_, _)
\* a faulty variant: the pattern without its optional terminator
MatchSentencesWithoutTerminator(paragraph, pos) ==
    IF pos > Len(paragraph) THEN << >>
    ELSE IF IsTerminator(paragraph[pos])
    THEN MatchSentencesWithoutTerminator(paragraph, pos + 1)
    ELSE LET later == {i \in pos..Len(paragraph) : IsTerminator(paragraph[i])}
             stop == IF later = {} THEN Len(paragraph)
                     ELSE (CHOOSE i \in later : \A j \in later : i <= j) - 1
         IN  << SubSeq(paragraph, pos, stop) >>
             \o MatchSentencesWithoutTerminator(paragraph, stop + 1)

RECURSIVE MatchSentences(_, _)
\* paragraph.match(/[^。！？!?；;]+[。！？!?；;]?/g) from position pos on
MatchSentences(paragraph, pos) ==
    IF pos > Len(paragraph) THEN << >>
    ELSE IF IsTerminator(paragraph[pos]) THEN MatchSentences(paragraph, pos + 1)
    ELSE LET later == {i \in pos..Len(paragraph) : IsTerminator(paragraph[i])}
             stop == IF later = {} THEN Len(paragraph)
                     ELSE CHOOSE i \in later : \A j \in later : i <= j
         IN  << SubSeq(paragraph, pos, stop) >> \o MatchSentences(paragraph, stop + 1)

\* the sentences pushed for one paragraph
ParagraphSentences(paragraph) ==
    LET matches == MatchSentences(paragraph, 1)
        trimmed == [i \in 1..Len(matches) |-> FlatTrim(matches[i])]
    IN  IF matches # << >> THEN SelectSeq(trimmed, LAMBDA m : m # << >>)
        ELSE << paragraph >>

RECURSIVE ConcatAll(_)
ConcatAll(seqs) == IF seqs = << >> THEN << >> ELSE Head(seqs) \o ConcatAll(Tail(seqs))

splitAssistantResponse(content) ==
    LET normalized == FlatTrim(DropCrBeforeNl(Flat(content)))
        paragraphs == SplitParagraphs(normalized, << >>)
        sentences == ConcatAll([i \in 1..Len(paragraphs) |-> ParagraphSentences(paragraphs[i])])
    IN  [i \in 1..Len(sentences) |-> Str(sentences[i])]

\* a faulty variant: the parts that are empty after trimming are kept
ReplyPartsUnfiltered(response) ==
    LET segments == splitAssistantResponse(response)
        parts == IF Len(segments) > 0 THEN segments ELSE << Trim(response) >>
    IN  [i \in 1..Len(parts) |-> Trim(parts[i])]

\* lines 1347-1354: the parts of a response that get written
ReplyParts(response) ==
    LET segments == splitAssistantResponse(response)
        parts == IF Len(segments) > 0 THEN segments ELSE << Trim(response) >>
        trimmed == [i \in 1..Len(parts) |-> Trim(parts[i])]
    IN  SelectSeq(trimmed, LAMBDA part : part # << >>)

(***************************************************************************)
(* Send-only on a stored contact and thread.                               *)
(***************************************************************************)
InputSamples == {SentInput, EditedInput, BlankInput, << >>}

NextSend ==
    \/ Tick
    \/ \E inputValue \in InputSamples : SendMessage(1, inputValue)
    \/ \E inputValue \in InputSamples : SendEmpty(1, inputValue)
    \/ \E i \in 1..MaxOps : SaveMessageAdd(i)
    \/ \E i \in 1..MaxOps : SaveMessageUpdateThread(i)

InitSend ==
    /\ contacts = (1 :> NewContact(ContactName, Str(<<"zh">>)))
    /\ threads = (1 :> [contactId |-> 1, title |-> Cat(ContactName, TitleSuffix),
                        updatedAt |-> 0])
    /\ messages = << >>
    /\ nextContactId = 2
    /\ nextThreadId = 2
    /\ nextMessageId = 1
    /\ clock = 0
    /\ settings = DefaultSettings
    /\ txq = << >>
    /\ calls = << >>
    /\ UiInit

SpecSend == InitSend /\ [][NextSend]_vars

\* text is value without its leading and trailing whitespace
IsTrimOf(text, value) ==
    \E i \in 1..(Len(value) + 1), j \in 0..Len(value) :
        /\ text = SubSeq(value, i, j)
        /\ \A k \in 1..Len(value) : (k < i \/ k > j) => IsWhitespace(value[k].c)
        /\ text # << >> => ~IsWhitespace(text[1].c) /\ ~IsWhitespace(text[Len(text)].c)

\* send-only with an input that is not blank: one messages.add of a user message
\* with the trimmed input for the thread is issued, and nothing else happens
SendIssuesOneAdd ==
    \A inputValue \in InputSamples :
        SendMessage(1, inputValue) =>
            /\ ~IsTrimOf(<< >>, inputValue)
            /\ Len(txq') = Len(txq) + 1
            /\ txq'[Len(txq')].kind = "messages.add"
            /\ txq'[Len(txq')].threadId = 1
            /\ txq'[Len(txq')].role = "user"
            /\ IsTrimOf(txq'[Len(txq')].text, inputValue)
            /\ UNCHANGED <<messages, threads, llm, appVars, timerVars>>

\* the add stores exactly one message, as issued; the thread update that follows
\* sets updatedAt to the message's createdAt, which is not before the old value
AddStoresOneMessage ==
    \A i \in 1..Len(txq) :
        /\ SaveMessageAdd(i) =>
              /\ DOMAIN messages' = DOMAIN messages \cup {nextMessageId}
              /\ nextMessageId \notin DOMAIN messages
              /\ \A m \in DOMAIN messages : messages'[m] = messages[m]
              /\ messages'[nextMessageId] =
                    [threadId |-> txq[i].threadId, role |-> txq[i].role,
                     content |-> txq[i].text, createdAt |-> txq[i].at]
              /\ Len(txq') = Len(txq)
              /\ UNCHANGED <<threads, llm, appVars, timerVars>>
        /\ SaveMessageUpdateThread(i) =>
              /\ threads'[txq[i].threadId].updatedAt = txq[i].at
              /\ threads'[txq[i].threadId].updatedAt >= threads[txq[i].threadId].updatedAt
              /\ \E m \in DOMAIN messages :
                    messages[m].threadId = txq[i].threadId /\ messages[m].createdAt = txq[i].at
              /\ UNCHANGED <<messages, llm, appVars, timerVars>>

\* send-only with a blank input changes nothing
BlankSendChangesNothing ==
    \A inputValue \in InputSamples :
        SendEmpty(1, inputValue) =>
            /\ IsTrimOf(<< >>, inputValue)
            /\ UNCHANGED <<messages, threads, txq, llm, error, appVars, timerVars>>

(* C12: send-only with an input that is not empty when trimmed adds        *)
(* exactly one message with role user and the trimmed input to the active  *)
(* thread and sets the thread's updatedAt to the message's time; with an   *)
(* input that is empty when trimmed it adds no message and leaves the      *)
(* thread as it is; in both cases no LLM request is made.                  *)
SendOnlyPersistsOneUserMessage ==
    /\ [](llm = << >>)
    /\ [](\A m \in DOMAIN messages :
             messages[m].role = "user" /\ IsTrimOf(messages[m].content, messages[m].content))
    /\ [][SendIssuesOneAdd /\ AddStoresOneMessage /\ BlankSendChangesNothing]_vars

\* a sent message is stored and the thread carries its time
SentMessageStored ==
    /\ clock > 0
    /\ \E m \in DOMAIN messages :
          /\ messages[m].createdAt > 0
          /\ threads[1].updatedAt = messages[m].createdAt
          /\ messages[m].content = Rep("a", 1)

(***************************************************************************)
(* The assistant-reply flow: requestAssistantReply (ChatApp.tsx 1312-1370) *)
(* with sendMessageToLLM (chatService.ts 275-308) and chatCompletion.      *)
(* Every await is a step: the read of the thread's messages and the check  *)
(* of the two preconditions; threads.get, contacts.get and the read of the *)
(* history inside sendMessageToLLM; the completion request, which the      *)
(* service answers or fails; then messages.add and threads.update for one  *)
(* part after the other.  llm[k] keeps for request k the thread, the ids   *)
(* of the history read at line 287, how many of them the payload carries,  *)
(* the roles the caller had read when it checked, the response, the ids of *)
(* the messages written from it and, when a write failed, which.           *)
(***************************************************************************)
RECURSIVE hasPendingUserMessageAnyUser(_, _)
\* a faulty variant of the scan: it does not stop at an assistant message
hasPendingUserMessageAnyUser(threadMessages, index) ==
    IF index < 1 THEN FALSE
    ELSE IF threadMessages[index].role = "user" THEN TRUE
    ELSE hasPendingUserMessageAnyUser(threadMessages, index - 1)

RECURSIVE hasPendingUserMessage(_, _)
\* the loop of lines 1320-1330, from index down
hasPendingUserMessage(threadMessages, index) ==
    IF index < 1 THEN FALSE
    ELSE IF threadMessages[index].role = "assistant" THEN FALSE
    ELSE IF threadMessages[index].role = "user" THEN TRUE
    ELSE hasPendingUserMessage(threadMessages, index - 1)

ReplyKinds == {"reply.messages.sortBy", "llm.threads.get", "llm.contacts.get",
               "llm.messages.sortBy"}

\* reply requests that have not reached chatCompletion yet
ReplyProcesses == Cardinality({i \in 1..Len(txq) : txq[i].kind \in ReplyKinds})

Roles(history) == [i \in 1..Len(history) |-> history[i].role]

\* requestAssistantReply is called for the active thread (lines 1312-1319)
RequestAssistantReply(threadId) ==
    /\ RoomForOp
    /\ threadId \in DOMAIN threads
    /\ ReplyProcesses + Len(llm) < replyCap
    /\ txq' = Append(txq, [NoTx EXCEPT !.kind = "reply.messages.sortBy", !.mode = "ro",
                                       !.scope = {"messages"}, !.threadId = threadId])
    /\ UNCHANGED <<contacts, threads, messages, nextContactId, nextThreadId,
                   nextMessageId, clock, settings, replyCap, summaries, calls, uiVars, appVars, timerVars>>

\* lines 1319-1346: the messages are read, the two preconditions checked
ReplyCheckPending(i) ==
    /\ i \in 1..Len(txq)
    /\ txq[i].kind = "reply.messages.sortBy"
    /\ CanRun(i)
    /\ LET threadMessages == ThreadHistory(txq[i].threadId)
           pending == hasPendingUserMessage(threadMessages, Len(threadMessages))
       IN  /\ error' = IF ~pending THEN "nothingPending"
                       ELSE IF apiKey = << >> THEN "missingKey"
                       ELSE "none"
           /\ isSending' = IF pending /\ apiKey # << >> THEN TRUE ELSE isSending
           /\ txq' = IF pending /\ apiKey # << >>
                     THEN Append(Remove(txq, i),
                                 [NoTx EXCEPT !.kind = "llm.threads.get", !.mode = "ro",
                                              !.scope = {"threads"},
                                              !.threadId = txq[i].threadId,
                                              !.seen = Roles(threadMessages),
                                              !.regen = txq[i].regen])
                     ELSE Remove(txq, i)
    /\ UNCHANGED <<contacts, threads, messages, nextContactId, nextThreadId,
                   nextMessageId, clock, settings, replyCap, summaries, calls, apiKey, llm, appVars, timerVars>>

\* sendMessageToLLM, lines 276-279
LlmGetThread(i) ==
    /\ i \in 1..Len(txq)
    /\ txq[i].kind = "llm.threads.get"
    /\ CanRun(i)
    /\ LET found == txq[i].threadId \in DOMAIN threads
       IN  /\ txq' = IF found
                     THEN Append(Remove(txq, i),
                                 [txq[i] EXCEPT !.kind = "llm.contacts.get",
                                                !.scope = {"contacts"},
                                                !.contactId =
                                                    threads[txq[i].threadId].contactId])
                     ELSE Remove(txq, i)
           /\ error' = IF found THEN error ELSE "notFound"
           /\ isSending' = IF found THEN isSending ELSE FALSE
    /\ UNCHANGED <<contacts, threads, messages, nextContactId, nextThreadId,
                   nextMessageId, clock, settings, replyCap, summaries, calls, apiKey, llm, appVars, timerVars>>

\* sendMessageToLLM, lines 281-287
LlmGetContact(i) ==
    /\ i \in 1..Len(txq)
    /\ txq[i].kind = "llm.contacts.get"
    /\ CanRun(i)
    /\ LET found == txq[i].contactId \in DOMAIN contacts
       IN  /\ txq' = IF found
                     THEN Append(Remove(txq, i),
                                 [txq[i] EXCEPT !.kind = "llm.messages.sortBy",
                                                !.scope = {"messages"},
                                                !.contact = contacts[txq[i].contactId]])
                     ELSE Remove(txq, i)
           /\ error' = IF found THEN error ELSE "notFound"
           /\ isSending' = IF found THEN isSending ELSE FALSE
    /\ UNCHANGED <<contacts, threads, messages, nextContactId, nextThreadId,
                   nextMessageId, clock, settings, replyCap, summaries, calls, apiKey, llm, appVars, timerVars>>

\* sendMessageToLLM, lines 287-305: the payload is built from the history and
\* chatCompletion is called with it
LlmReadHistory(i) ==
    /\ i \in 1..Len(txq)
    /\ txq[i].kind = "llm.messages.sortBy"
    /\ CanRun(i)
    /\ LET history == ThreadHistory(txq[i].threadId)
           payload == buildChatPayload(txq[i].contact, settings, history,
                                       txq[i].contact.tokenLimit)
       IN  llm' = Append(llm, [threadId |-> txq[i].threadId,
                               history |-> [j \in 1..Len(history) |-> history[j].id],
                               selected |-> Len(payload.payloadMessages) - 1,
                               seen |-> txq[i].seen,
                               regen |-> txq[i].regen,
                               state |-> "pending",
                               content |-> << >>,
                               written |-> << >>,
                               failed |-> 0,
                               failedAt |-> "none"])
    /\ txq' = Remove(txq, i)
    /\ UNCHANGED <<contacts, threads, messages, nextContactId, nextThreadId,
                   nextMessageId, clock, settings, replyCap, summaries, calls, error, isSending, apiKey, appVars, timerVars>>

\* a faulty variant: the part goes to the thread of the route of the moment
WritePartToActiveThread(k, threadId, parts) ==
    [NoTx EXCEPT !.kind = "reply.messages.add", !.mode = "rw", !.scope = {"messages"},
                 !.threadId = IF route = 0 \/ ThreadsOf(route) = {} THEN threadId
                              ELSE CHOOSE t \in ThreadsOf(route) : TRUE,
                 !.role = "assistant", !.text = Head(parts),
                 !.at = clock, !.rest = Tail(parts), !.request = k]

\* persistMessage for one part of a response: createdAt is read now
WritePart(k, threadId, parts) ==
    [NoTx EXCEPT !.kind = "reply.messages.add", !.mode = "rw", !.scope = {"messages"},
                 !.threadId = threadId, !.role = "assistant", !.text = Head(parts),
                 !.at = clock, !.rest = Tail(parts), !.request = k]

\* chatCompletion returns content (a non-empty string): lines 1346-1360 up to the
\* first persistMessage, or to the end of the loop when no part is left
LlmAnswers(k, content) ==
    /\ k \in 1..Len(llm)
    /\ llm[k].state = "pending"
    /\ content # << >>
    /\ LET parts == ReplyParts(content)
       IN  /\ llm' = [llm EXCEPT ![k].content = content,
                                 ![k].state = IF parts = << >> THEN "done" ELSE "writing"]
           /\ txq' = IF parts = << >> THEN txq
                     ELSE Append(txq, WritePart(k, llm[k].threadId, parts))
           /\ isSending' = IF parts = << >> THEN FALSE ELSE isSending
    /\ UNCHANGED <<contacts, threads, messages, nextContactId, nextThreadId,
                   nextMessageId, clock, settings, replyCap, summaries, calls, error, apiKey, appVars, timerVars>>

\* a faulty variant: the error is shown and the finally block is missing
LlmFailsKeepsSending(k) ==
    /\ k \in 1..Len(llm)
    /\ llm[k].state = "pending"
    /\ llm' = [llm EXCEPT ![k].state = "llmFailed"]
    /\ error' = "failed"
    /\ UNCHANGED <<contacts, threads, messages, nextContactId, nextThreadId,
                   nextMessageId, clock, settings, replyCap, summaries, txq, calls,
                   isSending, apiKey, appVars, timerVars>>

\* chatCompletion throws (transport, HTTP status, empty content): lines 1361-1369
LlmFails(k) ==
    /\ k \in 1..Len(llm)
    /\ llm[k].state = "pending"
    /\ llm' = [llm EXCEPT ![k].state = "llmFailed"]
    /\ error' = "failed"
    /\ isSending' = FALSE
    /\ UNCHANGED <<contacts, threads, messages, nextContactId, nextThreadId,
                   nextMessageId, clock, settings, replyCap, summaries, txq, calls, apiKey, appVars, timerVars>>

\* saveMessage line 271 for a part
ReplyMessagesAdd(i) ==
    /\ i \in 1..Len(txq)
    /\ txq[i].kind = "reply.messages.add"
    /\ CanRun(i)
    /\ messages' = messages @@ (nextMessageId :>
                      [threadId |-> txq[i].threadId, role |-> txq[i].role,
                       content |-> txq[i].text, createdAt |-> txq[i].at])
    /\ nextMessageId' = nextMessageId + 1
    /\ llm' = [llm EXCEPT ![txq[i].request].written = Append(@, nextMessageId)]
    /\ txq' = Append(Remove(txq, i),
                     [txq[i] EXCEPT !.kind = "reply.threads.update", !.scope = {"threads"}])
    /\ UNCHANGED <<contacts, threads, nextContactId, nextThreadId, clock, settings, replyCap, summaries,
                   calls, error, isSending, apiKey, appVars, timerVars>>

\* saveMessage line 272 for a part, then the next turn of the loop of lines
\* 1350-1360, or its end and the finally block
ReplyThreadsUpdate(i) ==
    /\ i \in 1..Len(txq)
    /\ txq[i].kind = "reply.threads.update"
    /\ CanRun(i)
    /\ threads' = BumpThread(txq[i].threadId, txq[i].at)
    /\ txq' = IF txq[i].rest = << >> THEN Remove(txq, i)
              ELSE Append(Remove(txq, i),
                          WritePart(txq[i].request, txq[i].threadId, txq[i].rest))
    /\ llm' = IF txq[i].rest = << >> THEN [llm EXCEPT ![txq[i].request].state = "done"]
              ELSE llm
    /\ isSending' = IF txq[i].rest = << >> THEN FALSE ELSE isSending
    /\ UNCHANGED <<contacts, messages, nextContactId, nextThreadId, nextMessageId,
                   clock, settings, replyCap, summaries, calls, error, apiKey, appVars, timerVars>>

\* a faulty variant: the rejected part is skipped and the loop goes on
ReplyWriteFailsAndGoesOn(i) ==
    /\ i \in 1..Len(txq)
    /\ txq[i].kind \in {"reply.messages.add", "reply.threads.update"}
    /\ CanRun(i)
    /\ txq' = IF txq[i].rest = << >> THEN Remove(txq, i)
              ELSE Append(Remove(txq, i),
                          WritePart(txq[i].request, txq[i].threadId, txq[i].rest))
    /\ llm' = [llm EXCEPT ![txq[i].request].state = "writeFailed",
                          ![txq[i].request].failed =
                              Len(ReplyParts(llm[txq[i].request].content))
                              - Len(txq[i].rest),
                          ![txq[i].request].failedAt = txq[i].kind]
    /\ error' = "failed"
    /\ isSending' = FALSE
    /\ UNCHANGED <<contacts, threads, messages, nextContactId, nextThreadId,
                   nextMessageId, clock, settings, replyCap, summaries, calls, apiKey, appVars, timerVars>>

\* a write of a part is rejected by the store: persistMessage throws, the catch
\* block shows the error and the loop is left (lines 1361-1369)
ReplyWriteFails(i) ==
    /\ i \in 1..Len(txq)
    /\ txq[i].kind \in {"reply.messages.add", "reply.threads.update"}
    /\ CanRun(i)
    /\ txq' = Remove(txq, i)
    /\ llm' = [llm EXCEPT ![txq[i].request].state = "writeFailed",
                          ![txq[i].request].failed =
                              Len(ReplyParts(llm[txq[i].request].content))
                              - Len(txq[i].rest),
                          ![txq[i].request].failedAt = txq[i].kind]
    /\ error' = "failed"
    /\ isSending' = FALSE
    /\ UNCHANGED <<contacts, threads, messages, nextContactId, nextThreadId,
                   nextMessageId, clock, settings, replyCap, summaries, calls, apiKey, appVars, timerVars>>

\* the API key is changed in the settings screen
SetApiKey(value) ==
    /\ apiKey # value
    /\ apiKey' = value
    /\ UNCHANGED <<contacts, threads, messages, nextContactId, nextThreadId,
                   nextMessageId, clock, settings, replyCap, summaries, txq, calls, error, isSending, llm, appVars, timerVars>>

(***************************************************************************)
(* The reply flow on a stored contact and thread, from each of a few       *)
(* histories.                                                              *)
(***************************************************************************)
\* the roles of the stored messages, oldest first (the screen stores user and
\* assistant messages only)
RoleSamples == {<< >>, <<"user">>, <<"assistant">>, <<"user", "assistant">>,
                <<"assistant", "user">>, <<"user", "user">>}

\* responses of the service: two sentences, one padded sentence, blanks only
TwoSentences == Str(<<"a", "bang", "sp", "zh", "zhdot">>)
PaddedSentence == Str(<<"sp", "a", "nl">>)
BlankResponse == Str(<<"sp", "nl">>)
ResponseSamples == {TwoSentences, PaddedSentence, BlankResponse}

ApiKeySamples == {<< >>, Rep("a", 1)}

StoredMessages(roles) ==
    [m \in 1..Len(roles) |->
        [threadId |-> 1, role |-> roles[m], content |-> Content6, createdAt |-> 0]]

InitReply ==
    /\ contacts = (1 :> StoredContact)
    /\ threads = (1 :> [contactId |-> 1, title |-> Cat(StoredContact.name, TitleSuffix),
                        updatedAt |-> 0])
    /\ \E roles \in RoleSamples :
          /\ messages = StoredMessages(roles)
          /\ nextMessageId = Len(roles) + 1
    /\ nextContactId = 2
    /\ nextThreadId = 2
    /\ clock = 0
    /\ settings = ShortSettings
    /\ txq = << >>
    /\ calls = << >>
    /\ UiInit

NextReply ==
    \/ Tick
    \/ \E value \in ApiKeySamples : SetApiKey(value)
    \/ RequestAssistantReply(1)
    \/ \E k \in 1..MaxReplies, content \in ResponseSamples : LlmAnswers(k, content)
    \/ \E k \in 1..MaxReplies : LlmFails(k)
    \/ \E i \in 1..MaxOps :
          \/ ReplyCheckPending(i)
          \/ LlmGetThread(i)
          \/ LlmGetContact(i)
          \/ LlmReadHistory(i)
          \/ ReplyMessagesAdd(i)
          \/ ReplyThreadsUpdate(i)
          \/ ReplyWriteFails(i)

SpecReply == InitReply /\ [][NextReply]_vars

\* scanning from newest to oldest, a user message comes before any assistant message
UserBeforeAssistant(roles) ==
    \E i \in 1..Len(roles) :
        /\ roles[i] = "user"
        /\ \A j \in (i + 1)..Len(roles) : roles[j] # "assistant"

\* the step in which the reply request whose read is txq[i] makes its check
IsReplyCheck(i) ==
    /\ i \in 1..Len(txq)
    /\ txq[i].kind = "reply.messages.sortBy"
    /\ \/ txq' = Remove(txq, i)
       \/ /\ Len(txq') = Len(txq)
          /\ SubSeq(txq', 1, Len(txq) - 1) = Remove(txq, i)
          /\ txq'[Len(txq)].kind = "llm.threads.get"

CountKind(q, kind) == Cardinality({i \in 1..Len(q) : q[i].kind = kind})

\* a check goes on to sendMessageToLLM exactly when (a) and (b) hold; when (a)
\* fails it shows the nothing-pending error, when (b) fails the missing-key error,
\* and then the request is over with the messages and the requests as they were
CheckDecides ==
    [][\A i \in 1..MaxOps :
          IsReplyCheck(i) =>
              LET a == UserBeforeAssistant(Roles(ThreadHistory(txq[i].threadId)))
                  b == apiKey # << >>
                  over == txq' = Remove(txq, i) /\ messages' = messages /\ llm' = llm
              IN  /\ ~a => error' = "nothingPending" /\ over
                  /\ a /\ ~b => error' = "missingKey" /\ over
                  /\ a /\ b => txq' # Remove(txq, i) /\ messages' = messages]_vars

\* sendMessageToLLM is entered only from a check, and chatCompletion is called
\* only from sendMessageToLLM
CallsComeFromChecks ==
    [][/\ CountKind(txq', "llm.threads.get") > CountKind(txq, "llm.threads.get")
          => \E i \in 1..MaxOps : IsReplyCheck(i)
       /\ CountKind(txq', "llm.contacts.get") > CountKind(txq, "llm.contacts.get")
          => CountKind(txq', "llm.threads.get") < CountKind(txq, "llm.threads.get")
       /\ CountKind(txq', "llm.messages.sortBy") > CountKind(txq, "llm.messages.sortBy")
          => CountKind(txq', "llm.contacts.get") < CountKind(txq, "llm.contacts.get")
       /\ Len(llm') > Len(llm)
          => CountKind(txq', "llm.messages.sortBy") < CountKind(txq, "llm.messages.sortBy")
      ]_vars

\* C13: requestAssistantReply calls the LLM only if, when it checks, the scan of
\* the stored messages from newest to oldest reaches a user message before any
\* assistant message and an API key is set; when the first fails it shows the
\* nothing-pending error, when the second fails the missing-key error, and in both
\* cases it calls no LLM and adds, changes or deletes no message.
ReplyOnlyWhenPendingAndKey ==
    /\ CheckDecides
    /\ CallsComeFromChecks
    /\ [](\A k \in 1..Len(llm) : UserBeforeAssistant(llm[k].seen))

\* a request was turned down on a thread whose user message has been answered
AnsweredThreadTurnedDown ==
    /\ error = "nothingPending"
    /\ llm = << >>
    /\ \E m \in DOMAIN messages : messages[m].role = "user"

\* the segments of a response that are not empty when trimmed, trimmed
NonEmptySegments(content) ==
    LET segments == splitAssistantResponse(content)
        kept == SelectSeq(segments, LAMBDA segment : Trim(segment) # << >>)
    IN  [i \in 1..Len(kept) |-> Trim(kept[i])]

\* the messages request k has written are the first of its segments, in order
WrittenAreSegments(k) ==
    LET segments == NonEmptySegments(llm[k].content)
        written == llm[k].written
    IN  /\ Len(written) <= Len(segments)
        /\ \A j \in 1..Len(written) :
              /\ written[j] \in DOMAIN messages
              /\ messages[written[j]].content = segments[j]
              /\ messages[written[j]].role = "assistant"
              /\ messages[written[j]].threadId = llm[k].threadId
        /\ \A i, j \in 1..Len(written) :
              i < j => /\ written[i] < written[j]
                       /\ messages[written[i]].createdAt <= messages[written[j]].createdAt

\* every message that appears in the store is the next one written by one request
AddsAreAttributed ==
    [][\A m \in DOMAIN messages' \ DOMAIN messages :
          \E k \in 1..Len(llm) :
              /\ llm'[k].written = Append(llm[k].written, m)
              /\ \A other \in 1..Len(llm) \ {k} : llm'[other].written = llm[other].written
      ]_vars

\* C14: when the LLM call has succeeded and the reply is written, the assistant
\* messages added by that call are exactly the non-empty trimmed segments of the
\* reply, one message per segment, all with role assistant, with strictly
\* increasing ids and non-decreasing createdAt in segment order.
ReplyStoredAsSegments ==
    /\ AddsAreAttributed
    /\ [](\A k \in 1..Len(llm) :
            llm[k].state = "done" =>
                /\ WrittenAreSegments(k)
                /\ Len(llm[k].written) = Len(NonEmptySegments(llm[k].content)))

\* a reply of two sentences is stored as two messages written at different times
TwoSegmentsStored ==
    \E k \in 1..Len(llm) :
        /\ llm[k].state = "done"
        /\ Len(llm[k].written) = 2
        /\ messages[llm[k].written[1]].createdAt < messages[llm[k].written[2]].createdAt

Failed(k) == llm[k].state \in {"llmFailed", "writeFailed"}

\* what a failed request has left in the store: nothing when chatCompletion
\* failed; the first p - 1 segments when messages.add of segment p failed, the
\* first p when the threads.update after it failed; and no write of it is pending
FailedRequestKeepsPrefix ==
    \A k \in 1..Len(llm) :
        Failed(k) =>
            /\ WrittenAreSegments(k)
            /\ llm[k].state = "llmFailed" => llm[k].written = << >>
            /\ llm[k].failedAt = "reply.messages.add"
                   => Len(llm[k].written) = llm[k].failed - 1
            /\ llm[k].failedAt = "reply.threads.update"
                   => Len(llm[k].written) = llm[k].failed
            /\ \A i \in 1..Len(txq) :
                  txq[i].kind \in {"reply.messages.add", "reply.threads.update"}
                      => txq[i].request # k

\* the step in which a request fails shows the error; no step removes or changes
\* a stored message; a failed request writes nothing more
FailureIsShownAndFinal ==
    [][/\ \A k \in 1..Len(llm) :
             /\ ~Failed(k) /\ llm'[k].state \in {"llmFailed", "writeFailed"}
                    => error' = "failed" /\ messages' = messages
             /\ Failed(k) => llm'[k] = llm[k]
       /\ \A m \in DOMAIN messages : m \in DOMAIN messages' /\ messages'[m] = messages[m]
      ]_vars

DisplayCount == 2

RECURSIVE AscendingIds(_)
AscendingIds(ids) ==
    IF ids = {} THEN << >>
    ELSE LET first == CHOOSE a \in ids : \A b \in ids : a <= b
         IN  <<first>> \o AscendingIds(ids \ {first})

\* where('threadId').equals(id).reverse().limit(messageLimit), reversed
LoadedPage(threadId) ==
    LET ids == AscendingIds(MessagesOf(threadId))
        shown == Min(DisplayCount, Len(ids))
    IN  [i \in 1..shown |-> WithId(ids[Len(ids) - shown + i])]

RECURSIVE FirstAssistantIndex(_, _, _)
\* the loop of lines 938-946, from index down
FirstAssistantIndex(page, index, firstAssistantIndex) ==
    IF index < 1 THEN firstAssistantIndex
    ELSE IF page[index].role = "user" THEN firstAssistantIndex
    ELSE IF page[index].role = "assistant"
         THEN FirstAssistantIndex(page, index - 1, index)
    ELSE FirstAssistantIndex(page, index - 1, firstAssistantIndex)

\* a faulty variant: every assistant message of the page counts as latest
latestAssistantDataAnyAssistant(page) ==
    LET assistants == {i \in 1..Len(page) : page[i].role = "assistant"}
    IN  IF assistants = {}
        THEN [keys |-> {}, range |-> [start |-> 0, end |-> 0]]
        ELSE [keys |-> {page[i].id : i \in assistants},
              range |-> [start |-> CHOOSE i \in assistants : \A j \in assistants : i <= j,
                         end |-> Len(page)]]

\* keys as the set of message ids, range.start 0 for a null range
latestAssistantData(page) ==
    IF page = << >> \/ page[Len(page)].role # "assistant"
    THEN [keys |-> {}, range |-> [start |-> 0, end |-> 0]]
    ELSE LET start == FirstAssistantIndex(page, Len(page), Len(page))
         IN  [keys |-> {page[i].id : i \in start..Len(page)},
              range |-> [start |-> start, end |-> Len(page)]]

\* handleRegenerateMessage for a message of the page: lines 1558-1598, up to the
\* first await of every deleteMessageById call
HandleRegenerateMessage(threadId, message) ==
    /\ threadId \in DOMAIN threads
    /\ LET page == LoadedPage(threadId)
           data == latestAssistantData(page)
           toDeleteIds == [i \in 1..(Len(page) - data.range.start + 1) |->
                              page[data.range.start + i - 1].id]
       IN  IF message.role # "assistant"
           THEN /\ error' = "onlyAssistant"
                /\ UNCHANGED <<txq, regen>>
           ELSE IF message.id \notin data.keys
           THEN /\ error' = "onlyLatest"
                /\ UNCHANGED <<txq, regen>>
           ELSE /\ Len(regen) < replyCap
                /\ Len(txq) + Len(toDeleteIds) <= MaxOps
                /\ regen' = Append(regen, [threadId |-> threadId, target |-> message.id,
                                           toDeleteIds |-> toDeleteIds,
                                           remaining |-> Len(toDeleteIds)])
                /\ txq' = txq \o [i \in 1..Len(toDeleteIds) |->
                                     [NoTx EXCEPT !.kind = "regen.messages.get",
                                                  !.mode = "ro", !.scope = {"messages"},
                                                  !.messageId = toDeleteIds[i],
                                                  !.threadId = threadId,
                                                  !.regen = Len(regen) + 1]]
                /\ UNCHANGED error
    /\ UNCHANGED <<contacts, threads, messages, nextContactId, nextThreadId,
                   nextMessageId, clock, settings, replyCap, summaries, calls, isSending, apiKey, llm, handled, timerVars>>

\* one deleteMessageById of Regenerate request r returns: when it is the last one
\* Promise.all resolves and requestAssistantReply is called (line 1599)
RegenReturn(q, r) ==
    IF regen[r].remaining = 1
    THEN Append(q, [NoTx EXCEPT !.kind = "reply.messages.sortBy", !.mode = "ro",
                                !.scope = {"messages"},
                                !.threadId = regen[r].threadId, !.regen = r])
    ELSE q

\* deleteMessageById lines 413-416, called by Regenerate
RegenDeleteGet(i) ==
    /\ i \in 1..Len(txq)
    /\ txq[i].kind = "regen.messages.get"
    /\ CanRun(i)
    /\ LET found == txq[i].messageId \in DOMAIN messages
       IN  /\ txq' = IF found
                     THEN Append(Remove(txq, i),
                                 [txq[i] EXCEPT !.kind = "regen.deleteMessage.transaction",
                                                !.mode = "rw",
                                                !.scope = {"messages", "threads"},
                                                !.threadId =
                                                    messages[txq[i].messageId].threadId])
                     ELSE RegenReturn(Remove(txq, i), txq[i].regen)
           /\ regen' = IF found THEN regen
                       ELSE [regen EXCEPT ![txq[i].regen].remaining = @ - 1]
    /\ UNCHANGED <<contacts, threads, messages, nextContactId, nextThreadId,
                   nextMessageId, clock, settings, replyCap, summaries, calls, uiVars, handled, timerVars>>

\* deleteMessageById lines 417-420, called by Regenerate
RegenDeleteTransaction(i) ==
    /\ i \in 1..Len(txq)
    /\ txq[i].kind = "regen.deleteMessage.transaction"
    /\ CanRun(i)
    /\ messages' = [m \in DOMAIN messages \ {txq[i].messageId} |-> messages[m]]
    /\ threads' = BumpThread(txq[i].threadId, clock)
    /\ txq' = RegenReturn(Remove(txq, i), txq[i].regen)
    /\ regen' = [regen EXCEPT ![txq[i].regen].remaining = @ - 1]
    /\ UNCHANGED <<contacts, nextContactId, nextThreadId, nextMessageId, clock,
                   settings, replyCap, summaries, calls, uiVars, handled, timerVars>>

\* the roles of the stored messages when Regenerate is asked for, oldest first
RegenRoleSamples ==
    {<<"assistant">>, <<"user", "assistant">>, <<"user", "assistant", "user">>,
     <<"assistant", "user", "assistant">>, <<"user", "assistant", "assistant">>,
     <<"user", "assistant", "assistant", "assistant">>}

InitRegen ==
    /\ contacts = (1 :> StoredContact)
    /\ threads = (1 :> [contactId |-> 1, title |-> Cat(StoredContact.name, TitleSuffix),
                        updatedAt |-> 0])
    /\ \E roles \in RegenRoleSamples :
          /\ messages = StoredMessages(roles)
          /\ nextMessageId = Len(roles) + 1
    /\ nextContactId = 2
    /\ nextThreadId = 2
    /\ clock = 0
    /\ settings = ShortSettings
    /\ txq = << >>
    /\ calls = << >>
    /\ UiInit

NextRegen ==
    \/ Tick
    \/ \E m \in DOMAIN messages : HandleRegenerateMessage(1, WithId(m))
    \/ \E k \in 1..MaxReplies : LlmAnswers(k, TwoSentences)
    \/ \E k \in 1..MaxReplies : LlmFails(k)
    \/ \E i \in 1..MaxOps :
          \/ RegenDeleteGet(i)
          \/ RegenDeleteTransaction(i)
          \/ ReplyCheckPending(i)
          \/ LlmGetThread(i)
          \/ LlmGetContact(i)
          \/ LlmReadHistory(i)
          \/ ReplyMessagesAdd(i)
          \/ ReplyThreadsUpdate(i)

SpecRegen == InitRegen /\ [][NextRegen]_vars

\* the assistant messages of a thread that no user message follows
TrailingAssistantRun(threadId) ==
    {m \in MessagesOf(threadId) :
        /\ messages[m].role = "assistant"
        /\ \A n \in MessagesOf(threadId) : Before(m, n) => messages[n].role = "assistant"}

ToDelete(r) == {regen[r].toDeleteIds[i] : i \in 1..Len(regen[r].toDeleteIds)}

\* a Regenerate is let through only for a target in the trailing assistant run
LetThroughOnlyInTrailingRun ==
    [][Len(regen') > Len(regen) =>
          LET r == regen'[Len(regen')]
          IN  r.target \in TrailingAssistantRun(r.threadId)]_vars

\* a message leaves the store only as one of the ids of a Regenerate let through
DeletesComeFromRegenerate ==
    [][\A m \in DOMAIN messages \ DOMAIN messages' :
          \E r \in 1..Len(regen) : m \in ToDelete(r)]_vars

\* a Regenerate that is turned down changes nothing but the error shown
TurnedDownChangesNothing ==
    [][error' \in {"onlyAssistant", "onlyLatest"} /\ error' # error =>
          /\ messages' = messages
          /\ txq' = txq
          /\ llm' = llm
          /\ regen' = regen]_vars

\* C16: Regenerate acts only when its target is an assistant message inside the
\* trailing run of assistant messages of the thread; for any other target it
\* deletes no message and makes no LLM call.
RegenerateOnlyForTrailingRun ==
    /\ LetThroughOnlyInTrailingRun
    /\ DeletesComeFromRegenerate
    /\ TurnedDownChangesNothing
    /\ [](\A k \in 1..Len(llm) : llm[k].regen \in 1..Len(regen))
    /\ [](\A i \in 1..Len(txq) :
            txq[i].kind \in ReplyKinds \cup {"regen.messages.get",
                                             "regen.deleteMessage.transaction"}
                => txq[i].regen \in 1..Len(regen))

\* a Regenerate asked for the first of two trailing replies has deleted both and
\* called the LLM
EarlierReplyOfRunRegenerated ==
    \E k \in 1..Len(llm) :
        LET r == llm[k].regen
        IN  /\ r \in 1..Len(regen)
            /\ Len(regen[r].toDeleteIds) = 2
            /\ regen[r].target = regen[r].toDeleteIds[1]
            /\ ToDelete(r) \cap DOMAIN messages = {}

\* a Regenerate has deleted its messages and is about to check for pending input
AfterDeletion(i) ==
    /\ txq[i].kind = "reply.messages.sortBy"
    /\ txq[i].regen # 0

\* C17: a permitted Regenerate deletes every message of the thread's trailing
\* assistant run and then runs the reply logic: after the deletion step the last
\* stored message of the thread is a user message, so the pending check passes,
\* and the LLM is called with a payload that has none of the deleted messages.
RegenerateRepliesOnShortenedHistory ==
    /\ \A i \in 1..Len(txq) :
          AfterDeletion(i) =>
              LET history == ThreadHistory(txq[i].threadId)
              IN  /\ history # << >>
                  /\ history[Len(history)].role = "user"
    /\ error # "nothingPending"
    /\ \A k \in 1..Len(llm) :
          llm[k].regen \in 1..Len(regen) =>
              \A j \in 1..Len(llm[k].history) : llm[k].history[j] \notin ToDelete(llm[k].regen)

(***************************************************************************)
(* Edit and Delete of one message: handleEditMessage (ChatApp.tsx          *)
(* 1529-1556) and handleDeleteMessage (1408-1426), up to the first await   *)
(* of the service function.  The message is one of the page or a message   *)
(* that has no id; the answer to window.prompt is a text, or NoName when   *)
(* the prompt is cancelled.                                                *)
(***************************************************************************)
\* a message object without id
Draft == [id |-> 0, threadId |-> 1, role |-> "user", content |-> Content6, createdAt |-> 0]

Handled(op, message, answer) ==
    [op |-> op, id |-> message.id, answer |-> answer, flip |-> 1 - handled.flip]

HandleDeleteMessage(message) ==
    /\ handled' = Handled("delete", message, NoName)
    /\ IF message.id = 0
       THEN /\ error' = "noIdDelete"
            /\ UNCHANGED txq
       ELSE /\ RoomForOp
            /\ txq' = Append(txq, [NoTx EXCEPT !.kind = "delete.messages.get",
                                               !.mode = "ro", !.scope = {"messages"},
                                               !.messageId = message.id])
            /\ UNCHANGED error
    /\ UNCHANGED <<contacts, threads, messages, nextContactId, nextThreadId,
                   nextMessageId, clock, settings, replyCap, summaries, calls, isSending, apiKey, llm, regen, timerVars>>

\* a faulty variant: the edited content is not checked for being empty
HandleEditMessageNoEmptyCheck(message, answer) ==
    /\ handled' = Handled("edit", message, answer)
    /\ IF message.id = 0
       THEN /\ error' = "noIdEdit"
            /\ UNCHANGED txq
       ELSE IF ~answer.present
       THEN UNCHANGED <<error, txq>>
       ELSE /\ RoomForOp
            /\ txq' = Append(txq, [NoTx EXCEPT !.kind = "update.messages.get",
                                               !.mode = "ro", !.scope = {"messages"},
                                               !.messageId = message.id,
                                               !.text = Trim(answer.value)])
            /\ UNCHANGED error
    /\ UNCHANGED <<contacts, threads, messages, nextContactId, nextThreadId,
                   nextMessageId, clock, settings, replyCap, summaries, calls, isSending, apiKey, llm, regen, timerVars>>

HandleEditMessage(message, answer) ==
    /\ handled' = Handled("edit", message, answer)
    /\ IF message.id = 0
       THEN /\ error' = "noIdEdit"
            /\ UNCHANGED txq
       ELSE IF ~answer.present
       THEN UNCHANGED <<error, txq>>
       ELSE IF Trim(answer.value) = << >>
       THEN /\ error' = "emptyEdit"
            /\ UNCHANGED txq
       ELSE /\ RoomForOp
            /\ txq' = Append(txq, [NoTx EXCEPT !.kind = "update.messages.get",
                                               !.mode = "ro", !.scope = {"messages"},
                                               !.messageId = message.id,
                                               !.text = Trim(answer.value)])
            /\ UNCHANGED error
    /\ UNCHANGED <<contacts, threads, messages, nextContactId, nextThreadId,
                   nextMessageId, clock, settings, replyCap, summaries, calls, isSending, apiKey, llm, regen, timerVars>>

AnswerSamples == {NoName, Name(EditedInput), Name(BlankInput)}

\* the messages the screen can hand to a handler
Targets == {WithId(m) : m \in DOMAIN messages} \cup {Draft}

InitEdit ==
    /\ contacts = (1 :> StoredContact)
    /\ threads = (1 :> [contactId |-> 1, title |-> Cat(StoredContact.name, TitleSuffix),
                        updatedAt |-> 0])
    /\ messages = StoredMessages(<<"user">>)
    /\ nextMessageId = 2
    /\ nextContactId = 2
    /\ nextThreadId = 2
    /\ clock = 0
    /\ settings = ShortSettings
    /\ txq = << >>
    /\ calls = << >>
    /\ UiInit

NextEdit ==
    \/ Tick
    \/ \E message \in Targets : HandleDeleteMessage(message)
    \/ \E message \in Targets, answer \in AnswerSamples : HandleEditMessage(message, answer)
    \/ \E i \in 1..MaxOps :
          \/ DeleteMessageGet(i)
          \/ DeleteMessageTransaction(i)
          \/ UpdateMessageGet(i)
          \/ UpdateMessageTransaction(i)

SpecEdit == InitEdit /\ [][NextEdit]_vars

StoreAsItWas ==
    /\ messages' = messages
    /\ threads' = threads
    /\ txq' = txq

\* C18: Edit and Delete of a message that has no persisted id show an error and
\* leave every message and every thread unchanged; Edit with content that is
\* empty after trimming is rejected with an error and leaves the message and the
\* updatedAt of its thread unchanged.
DraftsAndEmptyEditsAreRejected ==
    [][handled' # handled =>
          /\ handled'.id = 0 /\ handled'.op = "delete"
                => error' = "noIdDelete" /\ StoreAsItWas
          /\ handled'.id = 0 /\ handled'.op = "edit"
                => error' = "noIdEdit" /\ StoreAsItWas
          /\ (/\ handled'.id # 0
              /\ handled'.op = "edit"
              /\ handled'.answer.present
              /\ Trim(handled'.answer.value) = << >>)
                => error' = "emptyEdit" /\ StoreAsItWas]_vars

\* an edit of a stored message to blanks only was rejected after an earlier edit
\* of it went through
BlankEditRejected ==
    /\ handled.op = "edit"
    /\ handled.id \in DOMAIN messages
    /\ handled.answer = Name(BlankInput)
    /\ error = "emptyEdit"
    /\ messages[handled.id].content = Trim(EditedInput)

(***************************************************************************)
(* The auto-reply timer: clearAutoReplyTimer (ChatApp.tsx 696-701), the    *)
(* cleanup on unmount (770-779) and the auto-reply effect (1372-1406).     *)
(* React runs the effect, after the cleanup of its last run, when one of   *)
(* its dependencies has changed in a render; the model runs it as the step *)
(* that follows the change, before anything else of the screen.            *)
(***************************************************************************)
MaxTimers == 3

hasApiKey == Trim(apiKey) # << >>

\* contacts.find(contact.id === contactId), 0 for none
ActiveContact == IF route \in DOMAIN contacts THEN route ELSE 0

\* threads.find(thread.contactId === contactId) on the threads by updatedAt,
\* newest first; 0 for none
ActiveThreadId ==
    IF route = 0 \/ ThreadsOf(route) = {} THEN 0
    ELSE CHOOSE t \in ThreadsOf(route) :
             \A u \in ThreadsOf(route) : threads[u].updatedAt <= threads[t].updatedAt

RECURSIVE LatestPendingUserKey(_, _)
\* the loop of lines 1127-1135 from index down: the id of the message, 0 for null
LatestPendingUserKey(page, index) ==
    IF index < 1 THEN 0
    ELSE IF page[index].role = "assistant" THEN 0
    ELSE IF page[index].role = "user" THEN page[index].id
    ELSE LatestPendingUserKey(page, index - 1)

latestPendingUserKey ==
    IF ActiveThreadId = 0 THEN 0
    ELSE LatestPendingUserKey(LoadedPage(ActiveThreadId), Len(LoadedPage(ActiveThreadId)))

\* the dependencies of the effect (lines 1396-1406); requestAssistantReply
\* changes with the thread, the contact and the API key
Deps ==
    [contact |-> ActiveContact, enabled |-> ActiveContact \in autoReply,
     thread |-> ActiveThreadId, pendingKey |-> latestPendingUserKey,
     apiKey |-> apiKey, isSending |-> isSending, run |-> TRUE]

\* a faulty variant: the reference is dropped and the timeout is left set
clearAutoReplyTimerKeepsTimeout(ref, outstanding) ==
    [ref |-> 0, timers |-> outstanding]

\* the reference and the outstanding timeouts after clearAutoReplyTimer
clearAutoReplyTimer(ref, outstanding) ==
    IF ref # 0
    THEN [ref |-> 0, timers |-> {t \in outstanding : t.id # ref}]
    ELSE [ref |-> ref, timers |-> outstanding]

EffectsFlushed == ~mounted \/ effectDeps = Deps

\* a faulty variant: the effect sets the timeout during a send as well
AutoReplyEffectDuringSend ==
    /\ mounted
    /\ effectDeps # Deps
    /\ LET cleared == clearAutoReplyTimer(autoReplyTimerRef, timers)
           arms == /\ ActiveContact # 0
                   /\ ActiveContact \in autoReply
                   /\ ActiveThreadId # 0
                   /\ latestPendingUserKey # 0
                   /\ hasApiKey
       IN  IF arms
           THEN /\ nextTimerId <= MaxTimers
                /\ autoReplyTimerRef' = nextTimerId
                /\ timers' = cleared.timers
                                \cup {[id |-> nextTimerId, threadId |-> ActiveThreadId]}
                /\ nextTimerId' = nextTimerId + 1
           ELSE /\ autoReplyTimerRef' = cleared.ref
                /\ timers' = cleared.timers
                /\ UNCHANGED nextTimerId
    /\ effectDeps' = Deps
    /\ UNCHANGED <<contacts, threads, messages, nextContactId, nextThreadId,
                   nextMessageId, clock, settings, replyCap, summaries, txq, calls, uiVars, appVars,
                   route, mounted, autoReply, fired>>

\* the effect of lines 1372-1395 with the cleanup of its last run
AutoReplyEffect ==
    /\ mounted
    /\ effectDeps # Deps
    /\ LET cleared == clearAutoReplyTimer(autoReplyTimerRef, timers)
           arms == /\ ActiveContact # 0
                   /\ ActiveContact \in autoReply
                   /\ ActiveThreadId # 0
                   /\ latestPendingUserKey # 0
                   /\ hasApiKey
                   /\ ~isSending
       IN  IF arms
           THEN /\ nextTimerId <= MaxTimers
                /\ autoReplyTimerRef' = nextTimerId
                /\ timers' = cleared.timers
                                \cup {[id |-> nextTimerId, threadId |-> ActiveThreadId]}
                /\ nextTimerId' = nextTimerId + 1
           ELSE /\ autoReplyTimerRef' = cleared.ref
                /\ timers' = cleared.timers
                /\ UNCHANGED nextTimerId
    /\ effectDeps' = Deps
    /\ UNCHANGED <<contacts, threads, messages, nextContactId, nextThreadId,
                   nextMessageId, clock, settings, replyCap, summaries, txq, calls, uiVars, appVars,
                   route, mounted, autoReply, fired>>

\* the timeout t fires: lines 1388-1391, then requestAssistantReply of the render
\* that set it, up to its first await
TimerFires(t) ==
    /\ t \in timers
    /\ RoomForOp
    /\ ReplyProcesses + Len(llm) < replyCap
    /\ timers' = timers \ {t}
    /\ autoReplyTimerRef' = 0
    /\ fired' = [armedFor |-> t.threadId,
                 active |-> IF mounted THEN ActiveThreadId ELSE 0,
                 mounted |-> mounted]
    /\ txq' = Append(txq, [NoTx EXCEPT !.kind = "reply.messages.sortBy", !.mode = "ro",
                                       !.scope = {"messages"}, !.threadId = t.threadId])
    /\ UNCHANGED <<contacts, threads, messages, nextContactId, nextThreadId,
                   nextMessageId, clock, settings, replyCap, summaries, calls, uiVars, appVars,
                   route, mounted, autoReply, nextTimerId, effectDeps>>

\* the route changes to another contact while the component stays mounted
Navigate(contactId) ==
    /\ mounted
    /\ route # contactId
    /\ route' = contactId
    /\ UNCHANGED <<contacts, threads, messages, nextContactId, nextThreadId,
                   nextMessageId, clock, settings, replyCap, summaries, txq, calls, uiVars, appVars,
                   mounted, autoReply, autoReplyTimerRef, timers, nextTimerId,
                   effectDeps, fired>>

\* a faulty variant: the component goes away and its cleanups do not run
UnmountKeepsTimer ==
    /\ mounted
    /\ mounted' = FALSE
    /\ effectDeps' = NoDeps
    /\ UNCHANGED <<contacts, threads, messages, nextContactId, nextThreadId,
                   nextMessageId, clock, settings, replyCap, summaries, txq, calls, uiVars, appVars,
                   route, autoReply, autoReplyTimerRef, timers, nextTimerId, fired>>

\* the component unmounts: the cleanups of lines 770-779 and 1393-1395 run
Unmount ==
    /\ mounted
    /\ mounted' = FALSE
    /\ LET cleared == clearAutoReplyTimer(autoReplyTimerRef, timers)
       IN  /\ autoReplyTimerRef' = cleared.ref
           /\ timers' = cleared.timers
    /\ effectDeps' = NoDeps
    /\ UNCHANGED <<contacts, threads, messages, nextContactId, nextThreadId,
                   nextMessageId, clock, settings, replyCap, summaries, txq, calls, uiVars, appVars,
                   route, autoReply, nextTimerId, fired>>

\* the component mounts on a route, with a fresh reference
Mount(contactId) ==
    /\ ~mounted
    /\ mounted' = TRUE
    /\ route' = contactId
    /\ autoReplyTimerRef' = 0
    /\ UNCHANGED <<contacts, threads, messages, nextContactId, nextThreadId,
                   nextMessageId, clock, settings, replyCap, summaries, txq, calls, uiVars, appVars,
                   autoReply, timers, nextTimerId, effectDeps, fired>>

\* autoReplyEnabled of a contact is changed in its details
SetAutoReply(contactId, enabled) ==
    /\ contactId \in DOMAIN contacts
    /\ (contactId \in autoReply) # enabled
    /\ autoReply' = IF enabled THEN autoReply \cup {contactId} ELSE autoReply \ {contactId}
    /\ UNCHANGED <<contacts, threads, messages, nextContactId, nextThreadId,
                   nextMessageId, clock, settings, replyCap, summaries, txq, calls, uiVars, appVars,
                   route, mounted, autoReplyTimerRef, timers, nextTimerId,
                   effectDeps, fired>>

InitTimer ==
    /\ contacts = (1 :> StoredContact) @@ (2 :> StoredContact)
    /\ threads = [t \in {1, 2} |->
                     [contactId |-> t, title |-> Cat(StoredContact.name, TitleSuffix),
                      updatedAt |-> 0]]
    /\ messages = StoredMessages(<<"user">>)
    /\ nextMessageId = 2
    /\ nextContactId = 3
    /\ nextThreadId = 3
    /\ clock = 0
    /\ settings = ShortSettings
    /\ txq = << >>
    /\ calls = << >>
    /\ error = "none"
    /\ isSending = FALSE
    /\ apiKey = Rep("a", 1)
    /\ llm = << >>
    /\ replyCap = MaxReplies
    /\ summaries = << >>
    /\ regen = << >>
    /\ handled = [op |-> "none", id |-> 0, answer |-> NoName, flip |-> 0]
    /\ route = 1
    /\ mounted = TRUE
    /\ autoReply = {1, 2}
    /\ autoReplyTimerRef = 0
    /\ timers = {}
    /\ nextTimerId = 1
    /\ effectDeps = NoDeps
    /\ fired = NotFired

NextTimer ==
    \/ AutoReplyEffect
    \/ /\ EffectsFlushed
       /\ \/ \E contactId \in {1, 2} : Navigate(contactId)
          \/ Unmount
          \/ Mount(1)
          \/ \E enabled \in BOOLEAN : SetAutoReply(1, enabled)
          \/ mounted /\ SendMessage(ActiveThreadId, SentInput)
          \/ \E t \in timers : TimerFires(t)
          \/ \E k \in 1..MaxReplies : LlmAnswers(k, PaddedSentence)
          \/ \E i \in 1..MaxOps :
                \/ SaveMessageAdd(i)
                \/ SaveMessageUpdateThread(i)
                \/ ReplyCheckPending(i)
                \/ LlmGetThread(i)
                \/ LlmGetContact(i)
                \/ LlmReadHistory(i)
                \/ ReplyMessagesAdd(i)
                \/ ReplyThreadsUpdate(i)

SpecTimer == InitTimer /\ [][NextTimer]_vars

\* C19: in every reachable state at most one auto-reply timer is outstanding, and
\* it is the one the reference holds: a new timer is set only after the previous
\* one has been cleared or has fired.
AtMostOneTimerOutstanding ==
    /\ Cardinality(timers) <= 1
    /\ \A t \in timers : t.id = autoReplyTimerRef

\* a timer is outstanding after two earlier ones were cleared or fired
ThirdTimerOutstanding ==
    /\ nextTimerId > 3
    /\ Cardinality(timers) = 1

MaxCalls == 2

InitRetry ==
    /\ contacts = (1 :> StoredContact) @@ (2 :> StoredContact)
    /\ threads = [t \in {1, 2} |->
                     [contactId |-> t, title |-> Cat(StoredContact.name, TitleSuffix),
                      updatedAt |-> 0]]
    /\ messages = StoredMessages(<<"user">>)
    /\ nextMessageId = 2
    /\ nextContactId = 3
    /\ nextThreadId = 3
    /\ clock = 0
    /\ settings = ShortSettings
    /\ txq = << >>
    /\ calls = << >>
    /\ error = "none"
    /\ isSending = FALSE
    /\ apiKey = Rep("a", 1)
    /\ llm = << >>
    /\ replyCap = MaxCalls
    /\ summaries = << >>
    /\ regen = << >>
    /\ handled = [op |-> "none", id |-> 0, answer |-> NoName, flip |-> 0]
    /\ route = 1
    /\ mounted = TRUE
    /\ autoReply = {1, 2}
    /\ autoReplyTimerRef = 0
    /\ timers = {}
    /\ nextTimerId = 1
    /\ effectDeps = NoDeps
    /\ fired = NotFired

NextRetry ==
    \/ AutoReplyEffect
    \/ /\ EffectsFlushed
       /\ \/ \E contactId \in {1, 2} : Navigate(contactId)
          \/ \E enabled \in BOOLEAN : SetAutoReply(1, enabled)
          \/ \E t \in timers : TimerFires(t)
          \/ \E k \in 1..MaxCalls : LlmAnswers(k, PaddedSentence)
          \/ \E k \in 1..MaxCalls : LlmFails(k)
          \/ \E i \in 1..MaxOps :
                \/ ReplyCheckPending(i)
                \/ LlmGetThread(i)
                \/ LlmGetContact(i)
                \/ LlmReadHistory(i)
                \/ ReplyMessagesAdd(i)
                \/ ReplyThreadsUpdate(i)

SpecRetry == InitRetry /\ [][NextRetry]_vars

\* C21: after a completion request of a thread has failed, no further one is made
\* for that thread while the user neither sends, nor asks for a reply, nor
\* regenerates (no step of SpecRetry is one of these), also with auto-reply on.
NoCallAfterFailedCall ==
    \A k \in 1..Len(llm) : \A j \in 1..Len(llm) :
        (k < j /\ llm[k].state = "llmFailed") => llm[j].threadId # llm[k].threadId

(***************************************************************************)
(* The reply button pressed again: the button of line 1916 is enabled      *)
(* while isSending is not set, the input is empty and the thread has a     *)
(* pending user message.  Two requests are followed.                       *)
(***************************************************************************)
InitFlight ==
    /\ contacts = (1 :> StoredContact)
    /\ threads = (1 :> [contactId |-> 1, title |-> Cat(StoredContact.name, TitleSuffix),
                        updatedAt |-> 0])
    /\ messages = StoredMessages(<<"user">>)
    /\ nextMessageId = 2
    /\ nextContactId = 2
    /\ nextThreadId = 2
    /\ clock = 0
    /\ settings = ShortSettings
    /\ txq = << >>
    /\ calls = << >>
    /\ error = "none"
    /\ isSending = FALSE
    /\ apiKey = Rep("a", 1)
    /\ llm = << >>
    /\ replyCap = MaxCalls
    /\ summaries = << >>
    /\ regen = << >>
    /\ handled = [op |-> "none", id |-> 0, answer |-> NoName, flip |-> 0]
    /\ route = 1
    /\ mounted = TRUE
    /\ autoReply = {}
    /\ autoReplyTimerRef = 0
    /\ timers = {}
    /\ nextTimerId = 1
    /\ effectDeps = NoDeps
    /\ fired = NotFired

\* handleSendMessage({requestReply: true}) with an empty input (lines 1611-1638),
\* by the button of lines 1913-1916
SendWithReply ==
    /\ ~isSending
    /\ ActiveThreadId # 0
    /\ latestPendingUserKey # 0
    /\ RequestAssistantReply(ActiveThreadId)

NextFlight ==
    \/ Tick
    \/ SendWithReply
    \/ \E k \in 1..MaxCalls : LlmAnswers(k, TwoSentences)
    \/ \E k \in 1..MaxCalls : LlmFails(k)
    \/ \E i \in 1..MaxOps :
          \/ ReplyCheckPending(i)
          \/ LlmGetThread(i)
          \/ LlmGetContact(i)
          \/ LlmReadHistory(i)
          \/ ReplyMessagesAdd(i)
          \/ ReplyThreadsUpdate(i)

SpecFlight == InitFlight /\ [][NextFlight]_vars

\* the completion requests that were made and whose requestAssistantReply has
\* not returned yet
InFlight == {k \in 1..Len(llm) : llm[k].state \in {"pending", "writing"}}

\* C22: at any time at most one completion request is in flight: no second one is
\* started while an earlier requestAssistantReply has not finished.
AtMostOneReplyInFlight == Cardinality(InFlight) <= 1

(***************************************************************************)
(* A reply asked for and the screen left: the user switches to the other   *)
(* contact, leaves the chat and comes back while the request is under way. *)
(* No contact has auto-reply on, so no timeout is set.                     *)
(***************************************************************************)
InitSwitch ==
    /\ contacts = (1 :> StoredContact) @@ (2 :> StoredContact)
    /\ threads = [t \in {1, 2} |->
                     [contactId |-> t, title |-> Cat(StoredContact.name, TitleSuffix),
                      updatedAt |-> 0]]
    /\ messages = StoredMessages(<<"user">>)
    /\ nextMessageId = 2
    /\ nextContactId = 3
    /\ nextThreadId = 3
    /\ clock = 0
    /\ settings = ShortSettings
    /\ txq = << >>
    /\ calls = << >>
    /\ error = "none"
    /\ isSending = FALSE
    /\ apiKey = Rep("a", 1)
    /\ llm = << >>
    /\ replyCap = MaxReplies
    /\ summaries = << >>
    /\ regen = << >>
    /\ handled = [op |-> "none", id |-> 0, answer |-> NoName, flip |-> 0]
    /\ route = 1
    /\ mounted = TRUE
    /\ autoReply = {}
    /\ autoReplyTimerRef = 0
    /\ timers = {}
    /\ nextTimerId = 1
    /\ effectDeps = NoDeps
    /\ fired = NotFired

NextSwitch ==
    \/ Tick
    \/ \E contactId \in {1, 2} : Navigate(contactId)
    \/ Unmount
    \/ \E contactId \in {1, 2} : Mount(contactId)
    \/ mounted /\ SendWithReply
    \/ \E k \in 1..MaxReplies : LlmAnswers(k, TwoSentences)
    \/ \E i \in 1..MaxOps :
          \/ ReplyCheckPending(i)
          \/ LlmGetThread(i)
          \/ LlmGetContact(i)
          \/ LlmReadHistory(i)
          \/ ReplyMessagesAdd(i)
          \/ ReplyThreadsUpdate(i)

SpecSwitch == InitSwitch /\ [][NextSwitch]_vars

ReplyWriteKinds == {"reply.messages.add", "reply.threads.update"}

\* what is written for a request is written to the thread it was made for, every
\* assistant message comes from a request, and a finished request has written
\* every segment
SegmentsGoToTheRequestedThread ==
    /\ \A k \in 1..Len(llm) : \A n \in 1..Len(llm[k].written) :
          /\ llm[k].written[n] \in DOMAIN messages
          /\ messages[llm[k].written[n]].threadId = llm[k].threadId
          /\ messages[llm[k].written[n]].content = ReplyParts(llm[k].content)[n]
    /\ \A m \in DOMAIN messages :
          messages[m].role = "assistant" =>
              \E k \in 1..Len(llm) : \E n \in 1..Len(llm[k].written) :
                  llm[k].written[n] = m
    /\ \A i \in 1..Len(txq) :
          txq[i].kind \in ReplyWriteKinds =>
              txq[i].threadId = llm[txq[i].request].threadId
    /\ \A k \in 1..Len(llm) :
          llm[k].state = "done" =>
              Len(llm[k].written) = Len(ReplyParts(llm[k].content))

\* a switch of thread, an unmount or a mount leaves the requests and their
\* pending reads and writes as they are, and a request only moves forward
RequestsAreNotAborted ==
    [][/\ (route' # route \/ mounted' # mounted) => (llm' = llm /\ txq' = txq)
       /\ Len(llm') >= Len(llm)
       /\ \A k \in 1..Len(llm) :
             llm'[k].state # llm[k].state =>
                 <<llm[k].state, llm'[k].state>> \in
                     {<<"pending", "writing">>, <<"pending", "done">>,
                      <<"writing", "done">>}]_vars

\* C23: a completion request of thread T, once started, is not aborted by a
\* thread switch or an unmount, and when it succeeds every segment is stored in
\* T and none in the thread that is active when the reply arrives.
StartedReplyIsStoredInItsThread ==
    /\ []SegmentsGoToTheRequestedThread
    /\ RequestsAreNotAborted

\* both segments of a reply are stored in the thread of the request while the
\* other thread is the active one
ReplyStoredWhileOtherThreadActive ==
    \E k \in 1..Len(llm) :
        /\ llm[k].state = "done"
        /\ Len(llm[k].written) = 2
        /\ mounted
        /\ ActiveThreadId # 0
        /\ ActiveThreadId # llm[k].threadId

(***************************************************************************)
(* summarizeThreadLongMemory (chatService.ts 310-393): threads.get,        *)
(* contacts.get, the test of the API key, the read of the history, the     *)
(* completion request, which the service answers or fails, and             *)
(* contacts.update.                                                        *)
(***************************************************************************)
MaxSummaries == 1

SummaryKinds == {"sum.threads.get", "sum.contacts.get", "sum.messages.sortBy",
                 "sum.contacts.update"}

\* the calls that have not reached the request or thrown yet
SummaryProcesses ==
    Cardinality({i \in 1..Len(txq) :
                    txq[i].kind \in SummaryKinds \ {"sum.contacts.update"}})

Summary(threadId, contactId, before, state) ==
    [threadId |-> threadId, contactId |-> contactId, before |-> before,
     state |-> state, content |-> << >>]

\* summarizeThreadLongMemory is called, up to its first await
SummarizeThreadLongMemory(threadId) ==
    /\ RoomForOp
    /\ SummaryProcesses + Len(summaries) < MaxSummaries
    /\ txq' = Append(txq, [NoTx EXCEPT !.kind = "sum.threads.get", !.mode = "ro",
                                       !.scope = {"threads"}, !.threadId = threadId])
    /\ UNCHANGED <<contacts, threads, messages, nextContactId, nextThreadId,
                   nextMessageId, clock, settings, replyCap, summaries, calls,
                   uiVars, appVars, timerVars>>

\* lines 311-314
SumGetThread(i) ==
    /\ i \in 1..Len(txq)
    /\ txq[i].kind = "sum.threads.get"
    /\ CanRun(i)
    /\ IF txq[i].threadId \in DOMAIN threads
       THEN /\ txq' = Append(Remove(txq, i),
                             [txq[i] EXCEPT !.kind = "sum.contacts.get",
                                            !.scope = {"contacts"},
                                            !.contactId =
                                                threads[txq[i].threadId].contactId])
            /\ UNCHANGED summaries
       ELSE /\ txq' = Remove(txq, i)
            /\ summaries' = Append(summaries,
                                   Summary(txq[i].threadId, 0, << >>, "noThread"))
    /\ UNCHANGED <<contacts, threads, messages, nextContactId, nextThreadId,
                   nextMessageId, clock, settings, replyCap, calls,
                   uiVars, appVars, timerVars>>

\* lines 316-324: the contact is read, then the API key of the settings store
SumGetContact(i) ==
    /\ i \in 1..Len(txq)
    /\ txq[i].kind = "sum.contacts.get"
    /\ CanRun(i)
    /\ IF txq[i].contactId \notin DOMAIN contacts
       THEN /\ txq' = Remove(txq, i)
            /\ summaries' = Append(summaries,
                                   Summary(txq[i].threadId, txq[i].contactId, << >>,
                                           "noContact"))
       ELSE IF apiKey = << >>
       THEN /\ txq' = Remove(txq, i)
            /\ summaries' = Append(summaries,
                                   Summary(txq[i].threadId, txq[i].contactId,
                                           contacts[txq[i].contactId].longMemory,
                                           "noKey"))
       ELSE /\ txq' = Append(Remove(txq, i),
                             [txq[i] EXCEPT !.kind = "sum.messages.sortBy",
                                            !.scope = {"messages"},
                                            !.contact = contacts[txq[i].contactId]])
            /\ UNCHANGED summaries
    /\ UNCHANGED <<contacts, threads, messages, nextContactId, nextThreadId,
                   nextMessageId, clock, settings, replyCap, calls,
                   uiVars, appVars, timerVars>>

\* lines 326-387: the history is read and, unless it is empty, the request is made
SumReadHistory(i) ==
    /\ i \in 1..Len(txq)
    /\ txq[i].kind = "sum.messages.sortBy"
    /\ CanRun(i)
    /\ txq' = Remove(txq, i)
    /\ summaries' = Append(summaries,
                           Summary(txq[i].threadId, txq[i].contactId,
                                   txq[i].contact.longMemory,
                                   IF ThreadHistory(txq[i].threadId) = << >>
                                   THEN "noMessages" ELSE "pending"))
    /\ UNCHANGED <<contacts, threads, messages, nextContactId, nextThreadId,
                   nextMessageId, clock, settings, replyCap, calls,
                   uiVars, appVars, timerVars>>

\* a faulty variant: the response is stored as it came
SumAnswersUntrimmed(k, content) ==
    /\ k \in 1..Len(summaries)
    /\ summaries[k].state = "pending"
    /\ content # << >>
    /\ summaries' = [summaries EXCEPT ![k].state = "updating", ![k].content = content]
    /\ txq' = Append(txq, [NoTx EXCEPT !.kind = "sum.contacts.update", !.mode = "rw",
                                       !.scope = {"contacts"},
                                       !.contactId = summaries[k].contactId,
                                       !.text = content,
                                       !.request = k])
    /\ UNCHANGED <<contacts, threads, messages, nextContactId, nextThreadId,
                   nextMessageId, clock, settings, replyCap, calls,
                   uiVars, appVars, timerVars>>

\* chatCompletion returns content (a non-empty string): lines 389-391 up to the
\* await of contacts.update
SumAnswers(k, content) ==
    /\ k \in 1..Len(summaries)
    /\ summaries[k].state = "pending"
    /\ content # << >>
    /\ summaries' = [summaries EXCEPT ![k].state = "updating", ![k].content = content]
    /\ txq' = Append(txq, [NoTx EXCEPT !.kind = "sum.contacts.update", !.mode = "rw",
                                       !.scope = {"contacts"},
                                       !.contactId = summaries[k].contactId,
                                       !.text = Trim(content),
                                       !.request = k])
    /\ UNCHANGED <<contacts, threads, messages, nextContactId, nextThreadId,
                   nextMessageId, clock, settings, replyCap, calls,
                   uiVars, appVars, timerVars>>

\* chatCompletion throws
SumFails(k) ==
    /\ k \in 1..Len(summaries)
    /\ summaries[k].state = "pending"
    /\ summaries' = [summaries EXCEPT ![k].state = "llmFailed"]
    /\ UNCHANGED <<contacts, threads, messages, nextContactId, nextThreadId,
                   nextMessageId, clock, settings, replyCap, txq, calls,
                   uiVars, appVars, timerVars>>

\* contacts.update(contact.id, {longMemory}): an empty summary is undefined, which
\* removes the key; nothing happens when the contact is no longer stored
SumContactsUpdate(i) ==
    /\ i \in 1..Len(txq)
    /\ txq[i].kind = "sum.contacts.update"
    /\ CanRun(i)
    /\ contacts' = [c \in DOMAIN contacts |->
                       IF c = txq[i].contactId
                       THEN [contacts[c] EXCEPT !.longMemory = txq[i].text]
                       ELSE contacts[c]]
    /\ summaries' = [summaries EXCEPT ![txq[i].request].state = "done"]
    /\ txq' = Remove(txq, i)
    /\ UNCHANGED <<threads, messages, nextContactId, nextThreadId,
                   nextMessageId, clock, settings, replyCap, calls,
                   uiVars, appVars, timerVars>>

(***************************************************************************)
(* A contact with a long-term memory and its thread, empty or not, with or *)
(* without an API key: the memory is summarised while the user renames the *)
(* contact and sends a message.                                            *)
(***************************************************************************)
SummaryRoleSamples == {<< >>, <<"user">>, <<"user", "assistant">>}

InitSummary ==
    /\ contacts = (1 :> StoredContact)
    /\ threads = (1 :> [contactId |-> 1, title |-> Cat(StoredContact.name, TitleSuffix),
                        updatedAt |-> 0])
    /\ \E roles \in SummaryRoleSamples :
          /\ messages = StoredMessages(roles)
          /\ nextMessageId = Len(roles) + 1
    /\ nextContactId = 2
    /\ nextThreadId = 2
    /\ clock = 0
    /\ settings = ShortSettings
    /\ txq = << >>
    /\ calls = << >>
    /\ error = "none"
    /\ isSending = FALSE
    /\ apiKey \in ApiKeySamples
    /\ llm = << >>
    /\ replyCap = MaxReplies
    /\ summaries = << >>
    /\ regen = << >>
    /\ handled = [op |-> "none", id |-> 0, answer |-> NoName, flip |-> 0]
    /\ route = 1
    /\ mounted = TRUE
    /\ autoReply = {}
    /\ autoReplyTimerRef = 0
    /\ timers = {}
    /\ nextTimerId = 1
    /\ effectDeps = NoDeps
    /\ fired = NotFired

NextSummary ==
    \/ SummarizeThreadLongMemory(1)
    \/ \E k \in 1..MaxSummaries, content \in ResponseSamples : SumAnswers(k, content)
    \/ \E k \in 1..MaxSummaries : SumFails(k)
    \/ UpdateContact(1, Name(NewName), Absent)
    \/ SendMessage(1, SentInput)
    \/ \E i \in 1..MaxOps :
          \/ SumGetThread(i)
          \/ SumGetContact(i)
          \/ SumReadHistory(i)
          \/ SumContactsUpdate(i)
          \/ UpdateContactUpdate(i)
          \/ UpdateContactModifyThreads(i)
          \/ SaveMessageAdd(i)
          \/ SaveMessageUpdateThread(i)

SpecSummary == InitSummary /\ [][NextSummary]_vars

Thrown == {"noThread", "noContact", "noKey", "noMessages"}

\* how many transactions of each kind of a summary are pending
SummaryTxs(q) ==
    [kind \in SummaryKinds |-> Cardinality({i \in 1..Len(q) : q[i].kind = kind})]

\* a call that has thrown or returned stays as it is, a pending update belongs to
\* a call whose request was answered, and without an API key no request is made
SummaryCallsAreFinal ==
    /\ \A i \in 1..Len(txq) :
          txq[i].kind = "sum.contacts.update" =>
              /\ txq[i].request \in 1..Len(summaries)
              /\ summaries[txq[i].request].state = "updating"
    /\ apiKey = << >> => \A k \in 1..Len(summaries) : summaries[k].state \in Thrown

\* what a step of summarizeThreadLongMemory does to the store
SummaryStepsChangeOnlyLongMemory ==
    [][(summaries' # summaries \/ SummaryTxs(txq') # SummaryTxs(txq)) =>
          /\ messages' = messages
          /\ threads' = threads
          /\ Len(summaries') >= Len(summaries)
          /\ Len(summaries') > Len(summaries) =>
                LET r == summaries'[Len(summaries')]
                IN  /\ r.state \in Thrown \cup {"pending"}
                    /\ r.state = "pending" =>
                          (apiKey # << >> /\ ThreadHistory(r.threadId) # << >>)
                    /\ ThreadHistory(r.threadId) = << >> => r.state \in Thrown
                    /\ contacts' = contacts
          /\ \A k \in 1..Len(summaries) :
                IF summaries[k].state = "updating" /\ summaries'[k].state = "done"
                THEN /\ DOMAIN contacts' = DOMAIN contacts
                     /\ \A c \in DOMAIN contacts :
                           contacts'[c] =
                               IF c = summaries[k].contactId
                               THEN [contacts[c] EXCEPT
                                        !.longMemory = Trim(summaries[k].content)]
                               ELSE contacts[c]
                ELSE /\ summaries[k].state \in Thrown \cup {"llmFailed", "done"} =>
                           summaries'[k] = summaries[k]
                     /\ summaries'[k].state # summaries[k].state =>
                           /\ contacts' = contacts
                           /\ summaries[k].state = "pending"
                           /\ summaries'[k].state \in {"llmFailed", "updating"}]_vars

\* C24: summarizeThreadLongMemory throws without a request and without a change of
\* the contact when no API key is set or the thread has no message; a failed
\* request leaves longMemory as it was; an answered one sets longMemory to the
\* trimmed response, which clears it when that is empty; no message and no thread
\* is changed.
SummaryChangesOnlyLongMemory ==
    /\ []SummaryCallsAreFinal
    /\ SummaryStepsChangeOnlyLongMemory

\* a response of blanks has cleared the long memory the contact had
BlankSummaryClearsLongMemory ==
    \E k \in 1..Len(summaries) :
        /\ summaries[k].state = "done"
        /\ summaries[k].before # << >>
        /\ Trim(summaries[k].content) = << >>
        /\ contacts[summaries[k].contactId].longMemory = << >>

\* C27: the history of every payload is the longest suffix that fits: with two or
\* more history messages selected tokenCount is at most tokenLimit, and when a
\* history message is left out, tokenCount plus the cost of the newest one left
\* out is more than tokenLimit.
SelectedSuffixIsLongestThatFits ==
    \A k \in 1..Len(calls) :
        LET payload == calls[k].payload
            h == CallHistory
            n == Len(payload.payloadMessages) - 1
        IN  /\ n >= 2 => payload.tokenCount <= payload.tokenLimit
            /\ n < Len(h) =>
                  payload.tokenCount + estimateTextTokens(h[Len(h) - n].content)
                      + MESSAGE_TOKEN_OVERHEAD > payload.tokenLimit

\* a call that took four messages of five, within the limit
FourOfFiveFit ==
    \E k \in 1..Len(calls) :
        /\ Len(calls[k].payload.payloadMessages) = 5
        /\ Len(CallHistory) = 5
        /\ calls[k].payload.tokenCount <= calls[k].payload.tokenLimit

(***************************************************************************)
(* estimateTextTokens called on a text, twice: every text of up to MaxRuns *)
(* stretches of one character, of the lengths of RunLengths.               *)
(***************************************************************************)
MaxRuns == 2
RunLengths == {1, 2, 5}

TextsUpTo(runs) ==
    {Canonical(r) : r \in SeqsUpTo([c : Char, n : RunLengths], runs)}

EstimateTextTokens(text) ==
    /\ Len(calls) < 2
    /\ calls # << >> => text = calls[1].text
    /\ calls' = Append(calls, [text |-> text, tokens |-> estimateTextTokens(text)])
    /\ UNCHANGED <<contacts, threads, messages, nextContactId, nextThreadId,
                   nextMessageId, clock, settings, replyCap, summaries, txq,
                   uiVars, appVars, timerVars>>

InitEstimate ==
    /\ contacts = << >>
    /\ threads = << >>
    /\ messages = << >>
    /\ nextContactId = 1
    /\ nextThreadId = 1
    /\ nextMessageId = 1
    /\ clock = 0
    /\ settings = ShortSettings
    /\ txq = << >>
    /\ calls = << >>
    /\ UiInit

\* a first call on any text, a second one on the same text
NextEstimate ==
    \/ calls = << >> /\ \E text \in TextsUpTo(MaxRuns) : EstimateTextTokens(text)
    \/ calls # << >> /\ EstimateTextTokens(calls[1].text)

SpecEstimate == InitEstimate /\ [][NextEstimate]_vars

\* empty, or nothing but whitespace
IsBlank(text) == \A i \in 1..Len(text) : IsWhitespace(text[i].c)

\* C25: estimateTextTokens gives the same result for the same text, 0 exactly for
\* a text that is empty or all whitespace, and a whole number of at least 1 for
\* every other text.
EstimateIsZeroExactlyForBlank ==
    \A k \in 1..Len(calls) :
        /\ calls[k].tokens \in Nat
        /\ calls[k].tokens = 0 <=> IsBlank(calls[k].text)
        /\ ~IsBlank(calls[k].text) => calls[k].tokens >= 1
        /\ \A j \in 1..Len(calls) :
              calls[j].text = calls[k].text => calls[j].tokens = calls[k].tokens

\* a line break of two characters was estimated as 0, and so was an ideographic
\* space next to a no-break space
BlankTextEstimated ==
    /\ Len(calls) = 2
    /\ calls[1].tokens = 0
    /\ calls[1].text \in {Str(<<"cr", "nl">>), Str(<<"ideosp", "nbsp">>)}

(***************************************************************************)
(* splitAssistantResponse called on a response, and the parts              *)
(* requestAssistantReply persists of it (lines 1347-1354): every text of   *)
(* up to MaxChars characters of SplitChars.                                *)
(***************************************************************************)
MaxChars == 5
SplitChars == {"a", "sp", "nl", "cr", "bang", "zhdot"}

SplitTexts(length) == {Str(q) : q \in SeqsUpTo(SplitChars, length)}

SplitAssistantResponse(content) ==
    /\ calls = << >>
    /\ calls' = Append(calls, [content |-> content,
                               segments |-> splitAssistantResponse(content),
                               parts |-> ReplyParts(content)])
    /\ UNCHANGED <<contacts, threads, messages, nextContactId, nextThreadId,
                   nextMessageId, clock, settings, replyCap, summaries, txq,
                   uiVars, appVars, timerVars>>

NextSplit ==
    calls = << >> /\ \E content \in SplitTexts(MaxChars) : SplitAssistantResponse(content)

SpecSplit == InitEstimate /\ [][NextSplit]_vars

\* the positions of the sentence terminators of a text
Terminators(q) == {i \in 1..Len(q) : IsTerminator(q[i])}

\* the position of the i-th terminator
TerminatorAt(q, i) ==
    CHOOSE p \in Terminators(q) : Cardinality({t \in Terminators(q) : t <= p}) = i

\* where the sentence that ends at position p starts
SentenceStart(q, p) ==
    LET earlier == {t \in Terminators(q) : t < p}
    IN  IF earlier = {} THEN 1
        ELSE 1 + CHOOSE t \in earlier : \A u \in earlier : u <= t

\* sentences, each ended by one terminator: every terminator follows a stretch
\* that has a character other than whitespace and no line break, and the text
\* ends with a terminator
IsSentences(q) ==
    /\ q # << >>
    /\ IsTerminator(q[Len(q)])
    /\ \A i \in 1..Len(q) : q[i] \notin {"nl", "cr"}
    /\ \A p \in Terminators(q) :
          \E i \in SentenceStart(q, p)..(p - 1) : ~IsWhitespace(q[i])

\* n sentences give n segments, the i-th being the i-th sentence with its
\* terminator, trimmed
SentencesGiveTheirSegments ==
    \A k \in 1..Len(calls) :
        LET q == Flat(calls[k].content)
            segments == calls[k].segments
        IN  IsSentences(q) =>
                /\ Len(segments) = Cardinality(Terminators(q))
                /\ \A i \in 1..Len(segments) :
                      /\ Flat(segments[i]) =
                             FlatTrim(SubSeq(q, SentenceStart(q, TerminatorAt(q, i)),
                                             TerminatorAt(q, i)))
                      /\ IsTerminator(Flat(segments[i])[Len(Flat(segments[i]))])

\* C26 as claimed: sentences give their segments, and a text that is not blank
\* and has no terminator gives the whole trimmed text as one segment.
SplitCutsAtTerminatorsOnly ==
    /\ SentencesGiveTheirSegments
    /\ \A k \in 1..Len(calls) :
          (~IsBlank(calls[k].content) /\ Terminators(Flat(calls[k].content)) = {}) =>
              calls[k].segments = << Trim(calls[k].content) >>

\* the trimmed text has a line break inside
HasLineBreak(content) ==
    \E i \in 1..Len(FlatTrim(DropCrBeforeNl(Flat(content)))) :
        FlatTrim(DropCrBeforeNl(Flat(content)))[i] = "nl"

\* C26 as amended: sentences give their segments, and a text that is not blank,
\* has no terminator and no line break inside gives the whole trimmed text as
\* one segment.
SplitCutsAtTerminatorsAndLines ==
    /\ SentencesGiveTheirSegments
    /\ \A k \in 1..Len(calls) :
          (/\ ~IsBlank(calls[k].content)
           /\ Terminators(Flat(calls[k].content)) = {}
           /\ ~HasLineBreak(calls[k].content)) =>
              calls[k].segments = << Trim(calls[k].content) >>

\* two sentences with a blank between them were split into two segments
TwoSentencesSplit ==
    /\ calls # << >>
    /\ calls[1].content = Str(<<"a", "bang", "sp", "a", "zhdot">>)
    /\ calls[1].segments = << Str(<<"a", "bang">>), Str(<<"a", "zhdot">>) >>

\* the characters of a text that are not whitespace, in order
Inked(q) == SelectSeq(q, LAMBDA c : ~IsWhitespace(c))

\* C30: splitting loses nothing: the segments of a reply, put together in order,
\* are the reply with only whitespace removed, terminators that are repeated or
\* lead a line included; the parts that are persisted are these segments, and
\* none is empty or blank.
SplitLosesNoContent ==
    \A k \in 1..Len(calls) :
        LET segments == calls[k].segments
        IN  /\ Inked(ConcatAll([i \in 1..Len(segments) |-> Flat(segments[i])]))
                  = Inked(Flat(calls[k].content))
            /\ calls[k].parts = segments
            /\ \A i \in 1..Len(segments) : ~IsBlank(segments[i])

(***************************************************************************)
(* The reply flow with its environment doing its part: each pending        *)
(* completion request fails or is answered, and each transaction of the    *)
(* flow that can run leaves the queue (it runs or is rejected; the next    *)
(* one of the same request may be queued in the same step).                *)
(***************************************************************************)
LlmResponds(k) ==
    \/ LlmFails(k)
    \/ \E content \in ResponseSamples : LlmAnswers(k, content)

StoreResponds(i) ==
    /\ i \in 1..Len(txq)
    /\ txq[i].kind \in ReplyKinds \cup ReplyWriteKinds
    /\ CanRun(i)
    /\ \/ txq' = Remove(txq, i)
       \/ /\ Len(txq') = Len(txq)
          /\ SubSeq(txq', 1, Len(txq) - 1) = Remove(txq, i)

SpecReplyLive ==
    /\ SpecReply
    /\ \A k \in 1..MaxCalls : WF_vars(LlmResponds(k))
    /\ \A i \in 1..MaxOps : WF_txq(StoreResponds(i))

\* requests that have passed the two tests and have not returned
Sending ==
    Cardinality({i \in 1..Len(txq) :
                    txq[i].kind \in (ReplyKinds \ {"reply.messages.sortBy"})
                                    \cup ReplyWriteKinds})
    + Cardinality({k \in 1..Len(llm) : llm[k].state = "pending"})

\* C29: every reply request that enters the sending state returns to idle when
\* the completion request and the writes complete or fail: the flag is cleared
\* after success, after a failed request and after a rejected write, so it is not
\* set when no request is under way, and it never stays set.
SendingAlwaysEnds ==
    /\ [](Sending = 0 => ~isSending)
    /\ isSending ~> ~isSending

\* the flag was cleared after the write of a segment was rejected
SendingClearedAfterRejectedWrite ==
    \E k \in 1..Len(llm) :
        /\ llm[k].state = "writeFailed"
        /\ ~isSending
        /\ Sending = 0

(***************************************************************************)
(* The auto-reply timer with time passing: the screen is left with a user  *)
(* message that has no answer; the user switches between the contacts and  *)
(* changes autoReplyEnabled and the API key, and sends nothing.  React     *)
(* runs a pending effect, a timeout that stays set fires after its delay,  *)
(* and the store and the completion request do their part.                 *)
(***************************************************************************)
InitArmed ==
    /\ contacts = (1 :> StoredContact) @@ (2 :> StoredContact)
    /\ threads = [t \in {1, 2} |->
                     [contactId |-> t, title |-> Cat(StoredContact.name, TitleSuffix),
                      updatedAt |-> 0]]
    /\ messages = StoredMessages(<<"user">>)
    /\ nextMessageId = 2
    /\ nextContactId = 3
    /\ nextThreadId = 3
    /\ clock = 0
    /\ settings = ShortSettings
    /\ txq = << >>
    /\ calls = << >>
    /\ error = "none"
    /\ isSending = FALSE
    /\ apiKey = Rep("a", 1)
    /\ llm = << >>
    /\ replyCap = MaxTimers
    /\ summaries = << >>
    /\ regen = << >>
    /\ handled = [op |-> "none", id |-> 0, answer |-> NoName, flip |-> 0]
    /\ route = 1
    /\ mounted = TRUE
    /\ autoReply = {1, 2}
    /\ autoReplyTimerRef = 0
    /\ timers = {}
    /\ nextTimerId = 1
    /\ effectDeps = NoDeps
    /\ fired = NotFired

NextArmed ==
    \/ AutoReplyEffect
    \/ /\ EffectsFlushed
       /\ \/ \E contactId \in {1, 2} : Navigate(contactId)
          \/ \E enabled \in BOOLEAN : SetAutoReply(1, enabled)
          \/ \E value \in ApiKeySamples : SetApiKey(value)
          \/ \E t \in timers : TimerFires(t)
          \/ \E k \in 1..MaxTimers : LlmAnswers(k, PaddedSentence)
          \/ \E k \in 1..MaxTimers : LlmFails(k)
          \/ \E i \in 1..MaxOps :
                \/ ReplyCheckPending(i)
                \/ LlmGetThread(i)
                \/ LlmGetContact(i)
                \/ LlmReadHistory(i)
                \/ ReplyMessagesAdd(i)
                \/ ReplyThreadsUpdate(i)

\* a timeout that stays set fires, and a transaction that can run leaves the queue
SpecArmed ==
    /\ InitArmed
    /\ [][NextArmed]_vars
    /\ WF_vars(\E t \in timers : TimerFires(t))
    /\ \A i \in 1..MaxOps : WF_txq(StoreResponds(i))

\* the timeout with the given id is set and has neither fired nor been cleared
Armed(id) == \E t \in timers : t.id = id

\* a timeout is set only while the four conditions hold for the active thread
ArmedOnlyUnderTheConditions ==
    (EffectsFlushed /\ timers # {}) =>
        /\ mounted
        /\ ActiveContact \in autoReply
        /\ \A t \in timers : t.threadId = ActiveThreadId
        /\ latestPendingUserKey # 0
        /\ hasApiKey
        /\ ~isSending

\* a timeout goes away by firing, which starts one reply request for its thread,
\* or with a run of the effect or an unmount; no id is set twice, and each reply
\* request is started by the firing of one timeout
ArmedLeavesByFiringOnce ==
    [][/\ \A t \in timers \ timers' :
             \/ /\ timers' = timers \ {t}
                /\ Len(txq') = Len(txq) + 1
                /\ SubSeq(txq', 1, Len(txq)) = txq
                /\ txq'[Len(txq')].kind = "reply.messages.sortBy"
                /\ txq'[Len(txq')].threadId = t.threadId
                /\ effectDeps' = effectDeps
             \/ /\ effectDeps' # effectDeps
                /\ txq' = txq
       /\ \A t \in timers' \ timers : t.id = nextTimerId /\ nextTimerId' = nextTimerId + 1
       /\ (Len(txq') > Len(txq) /\ txq'[Len(txq')].kind = "reply.messages.sortBy")
             => Cardinality(timers \ timers') = 1]_vars

\* C28: with auto-reply enabled for the active contact, an unanswered user message
\* at the end of the active thread, an API key set and no send in progress, the
\* timeout that was set fires unless one of the dependencies of the effect changes
\* first, and its firing starts the reply logic for that thread once; and a
\* timeout is set only while the four conditions hold.
ArmedTimerFiresOnce ==
    /\ []ArmedOnlyUnderTheConditions
    /\ ArmedLeavesByFiringOnce
    /\ \A id \in 1..MaxTimers : Armed(id) ~> (~Armed(id) \/ ~EffectsFlushed)

\* a timeout set after an earlier one was cleared has fired for the first thread
\* and its request has reached the completion request
SecondTimerFired ==
    /\ nextTimerId > 2
    /\ fired.armedFor = 1
    /\ timers = {}
    /\ Len(llm) = 1

====
